---- MODULE Spec2Model ----
(***************************************************************************)
(* StudyBuddy backend: the process-pdf ingestion pipeline (src/app.py),    *)
(* the Catalog (src/database.py) and the remote tier of the ContentStore   *)
(* (src/cloud_storage.py).                                                 *)
(*                                                                         *)
(* Every request is served by its own thread.  A thread's steps are the    *)
(* stretches of process_pdf between two accesses to state that other       *)
(* threads share: the SQLite file, the uploads/ folder, the bucket.        *)
(***************************************************************************)
EXTENDS Integers, Sequences, FiniteSets, TLC

(* ----------------------------- bounds ---------------------------------- *)
MaxReq == 2        \* process-pdf requests (threads) in one run
MaxPages == 2      \* longest PDF, in pages
MaxClock == 1      \* int(time.time()) runs over 0..MaxClock
MaxFaults == 1     \* failed explanation or narration calls in one run
MaxN == 14         \* longest PDF of the progress accounting, in pages
MaxReadPages == 1  \* pages of the stored PDF that the read routes serve
MaxListed == 3     \* highest page number of a stored image that is listed
MaxQuizCalls == 2  \* generate-quiz requests that one client sends in a run
MaxAuthClock == 2  \* the clock of the session model runs over 0..MaxAuthClock
MaxLogins == 1     \* sessions created
MaxCalls == 1      \* requests of one client to the routes under login_required
MaxBytes == 4      \* longest file of the hash model, in bytes
MaxSessions == 2   \* sessions created in the model of auth.py's functions
MaxAuthCalls == 4  \* calls one client makes to auth.py's functions

Reqs == 1..MaxReq
Users == {1, 2}
Filenames == {"notes.pdf"}

(* A PDF's bytes: one element per page; the empty file is not a PDF.       *)
RECURSIVE Ones(_)
Ones(n) == IF n = 0 THEN <<>> ELSE Append(Ones(n - 1), 1)
Contents == {Ones(n) : n \in 0..MaxPages}

NoKey == <<>>

VARIABLES
  clock,      \* int(time.time())
  gcs,        \* "none": get_storage_client() is None; "up"; "down": calls raise
  pdfs,       \* table pdfs, in pdf_id order
  user_pdfs,  \* table user_pdfs, in id order
  bucket,     \* names of the objects in the bucket
  bucketDb,   \* the object database/studybuddy.db: the replicated tables
  tempPdfs,   \* requests whose NamedTemporaryFile still exists
  folders,    \* storage keys K for which uploads/K exists
  localFiles, \* files below uploads/
  pc,         \* per request: position in process_pdf
  rq,         \* per request: its inputs and local variables
  events,     \* per request: the response so far
  faults,     \* explanation and narration calls that have failed
  sessions,   \* table sessions, in session_id order
  issued,     \* uuid4 tokens handed out so far
  tz          \* hours by which the server's local time is ahead of UTC

vars == <<clock, gcs, pdfs, user_pdfs, bucket, bucketDb, tempPdfs, folders,
          localFiles, pc, rq, events, faults, sessions, issued, tz>>

(* What the routes without a session leave alone                           *)
auth == <<sessions, issued, tz>>

(* ------------------------- pure helpers -------------------------------- *)

(* os.path.splitext(os.path.basename(file.filename))[0]                    *)
original_pdf_name(f) ==
  CASE f = "notes.pdf" -> "notes"
    [] f = "Notes.pdf" -> "Notes"
    [] f = "notes.txt" -> "notes"
    [] f = "NOTES.PDF" -> "NOTES"
    [] OTHER -> f

(* re.sub(r'[^\w\-]', '_', original_pdf_name).lower()                      *)
clean_pdf_name(stem) ==
  CASE stem = "notes" -> "notes"
    [] stem = "Notes" -> "notes"
    [] stem = "NOTES" -> "notes"
    [] OTHER -> stem

(* f"{pdf_name}_{int(time.time())}"                                        *)
storage_key(f, now) == <<clean_pdf_name(original_pdf_name(f)), now>>

(* hashlib.sha256 fed in chunks: the digest is a collision-free function   *)
(* of the concatenation of the chunks the hasher was updated with.         *)
(* f.read(65536), scaled to the lengths of the model's files               *)
ChunkSize == 2

RECURSIVE hash_chunks(_, _)
hash_chunks(absorbed, rest) ==
  LET buf == SubSeq(rest, 1, IF Len(rest) < ChunkSize THEN Len(rest)
                                                      ELSE ChunkSize)
  IN IF Len(buf) > 0
       THEN hash_chunks(absorbed \o buf, SubSeq(rest, Len(buf) + 1, Len(rest)))
       ELSE <<"sha256", absorbed>>

calculate_file_hash_first_read(bytes) ==
  <<"sha256", SubSeq(bytes, 1, IF Len(bytes) < ChunkSize THEN Len(bytes)
                                                         ELSE ChunkSize)>>

(* hasher = hashlib.sha256(); buf = f.read(65536); while len(buf) > 0:     *)
(* hasher.update(buf); buf = f.read(65536); return hasher.hexdigest()      *)
calculate_file_hash(bytes) == hash_chunks(<<>>, bytes)

(* convert_from_path: one image per page; it raises on a file that is not  *)
(* a PDF.                                                                  *)
convert_from_path_ok(bytes) == Len(bytes) > 0
page_count_of(bytes) == Len(bytes)

progress_percentage_off_by_one(page_number, page_count) ==
  30 + (page_number * 65) \div page_count

(* progress_percentage = 30 + int((page_number - 1) * 65 / page_count)     *)
progress_percentage(page_number, page_count) ==
  30 + ((page_number - 1) * 65) \div page_count

(* ------------------------------ Catalog -------------------------------- *)

(* SELECT * FROM pdfs WHERE pdf_hash = ?  (fetchone)                       *)
HashRows(tbl, h) == {k \in 1..Len(tbl) : tbl[k].pdf_hash = h}
Lowest(S) == CHOOSE k \in S : \A j \in S : k <= j

get_pdf_by_hash_never(tbl, h) == 0

get_pdf_by_hash(tbl, h) ==
  IF HashRows(tbl, h) = {} THEN 0 ELSE Lowest(HashRows(tbl, h))

pdf_hash_not_unique(tbl, h) == TRUE

(* pdf_hash TEXT UNIQUE NOT NULL                                           *)
pdf_hash_unique(tbl, h) == HashRows(tbl, h) = {}

(* SELECT id FROM user_pdfs WHERE user_id = ? AND pdf_id = ?               *)
LinkRows(tbl, u, p) ==
  {k \in 1..Len(tbl) : tbl[k].user_id = u /\ tbl[k].pdf_id = p}

link_exists(tbl, u, p) == LinkRows(tbl, u, p) # {}

(* except Exception: explanation = f"Failed to generate explanation ..."   *)
explanation_of(ok) ==
  IF ok THEN "explanation" ELSE "Failed to generate explanation"

(* except Exception: audio_data = b""                                      *)
audio_of(ok) == IF ok THEN "mp3" ELSE ""

(* yield {'type': 'progress', ...}                                         *)
progress_event(i, n) ==
  [type |-> "progress", progress |-> progress_percentage(i, n),
   page |-> i, total_pages |-> n]

(* yield {'type': 'page', 'page_data': {...}}                              *)
page_event(i, eok, nok) ==
  [type |-> "page", page_number |-> i,
   explanation |-> explanation_of(eok), audio |-> audio_of(nok)]

page_yields_page_first(i, n, eok, nok) ==
  <<page_event(i, eok, nok), progress_event(i, n)>>

page_yields_complete_in_loop(i, n, eok, nok) ==
  <<progress_event(i, n), page_event(i, eok, nok), [type |-> "complete"]>>

(* What one turn of the page loop yields when nothing escapes it.          *)
page_yields(i, n, eok, nok) == <<progress_event(i, n), page_event(i, eok, nok)>>

page_raises_on_explanation(folder_exists, eok, nok) ==
  ~folder_exists \/ ~eok

(* What escapes a turn of the page loop to the handler of generate():      *)
(* image.save and the writes of the .md file raise when uploads/K is gone; *)
(* a failed explanation call and a failed narration are caught in the turn.*)
page_raises(folder_exists, eok, nok) == ~folder_exists

(* ---------------------------- ContentStore ----------------------------- *)

Put(store, path, val) ==
  [p \in DOMAIN store \cup {path} |-> IF p = path THEN val ELSE store[p]]

(* upload_file / upload_from_filename: the object is written only when a   *)
(* client exists and the call does not raise; else None is returned.       *)
upload(store, mode, path, val) ==
  IF mode = "up" THEN Put(store, path, val) ELSE store

(* sync_db_to_cloud: the whole database file goes to the bucket            *)
sync_db_to_cloud(replica, mode, p, l) ==
  IF mode = "up" THEN <<p, l>> ELSE replica

(* What json.loads gives for a text that is not JSON: no value              *)
Invalid == [kind |-> "invalid", items |-> <<>>]

(* A request's locals.  fail, prior, efail and nfail are history: what     *)
(* escaped to the handler of generate(), whether a record with the hash    *)
(* was in the Catalog when the request came in, and the pages whose        *)
(* explanation and narration calls failed.                                 *)
NoRq == [user |-> 0, filename |-> "", bytes |-> <<>>, hash |-> <<>>,
         path |-> "none", key |-> NoKey, existing_key |-> NoKey,
         dbid |-> 0, n |-> 0, i |-> 0, fail |-> "none",
         prior |-> FALSE, efail |-> {}, nfail |-> {},
         route |-> "none", scheme |-> "none", token |-> 0, nth |-> 0,
         ecalls |-> <<>>, ncalls |-> <<>>, done_gen |-> Invalid]

Init ==
  /\ clock = 0
  /\ gcs \in {"none", "up"}
  /\ pdfs = <<>>
  /\ user_pdfs = <<>>
  /\ bucket = <<>>
  /\ bucketDb = <<>>
  /\ tempPdfs = {}
  /\ folders = {}
  /\ localFiles = {}
  /\ pc = [r \in Reqs |-> "idle"]
  /\ rq = [r \in Reqs |-> NoRq]
  /\ events = [r \in Reqs |-> <<>>]
  /\ faults = 0
  /\ sessions = <<>>
  /\ issued = 0
  /\ tz = 0

Emit(r, e) == events' = [events EXCEPT ![r] = Append(@, e)]

(* except Exception as e: yield {'type': 'error', ...}                     *)
Fail(r, cause) ==
  /\ Emit(r, [type |-> "error", error |-> cause])
  /\ pc' = [pc EXCEPT ![r] = "done"]
  /\ rq' = [rq EXCEPT ![r].fail = cause]

(* Users are numbered in the order of their first request.                 *)
KnownUsers == {rq[q].user : q \in {p \in Reqs : pc[p] \notin {"idle", "quiz"}}}

SubmitUploadsFirst(r) ==
  /\ pc[r] = "idle"
  /\ \A q \in Reqs : q < r => pc[q] # "idle"
  /\ \E u \in Users, f \in Filenames, b \in Contents, now \in clock..MaxClock :
       LET h == calculate_file_hash(b)
           ex == get_pdf_by_hash(pdfs, h)
           K == storage_key(f, now)
           mine == [NoRq EXCEPT !.user = u, !.filename = f, !.bytes = b,
                                !.hash = h, !.prior = HashRows(pdfs, h) # {}]
       IN /\ u \in KnownUsers \/ u = Cardinality(KnownUsers) + 1
          /\ clock' = now
          /\ tempPdfs' = tempPdfs \cup {r}
          /\ IF ex # 0
               THEN /\ rq' = [rq EXCEPT ![r] =
                         [mine EXCEPT !.path = "dup", !.dbid = ex,
                                      !.existing_key = pdfs[ex].file_path]]
                    /\ pc' = [pc EXCEPT ![r] = "assoc"]
                    /\ folders' = folders \cup {K}
                    /\ bucket' = upload(bucket, gcs,
                                        <<"pdfs", K, "original.pdf">>, b)
               ELSE /\ rq' = [rq EXCEPT ![r] =
                         [mine EXCEPT !.path = "new", !.key = K]]
                    /\ pc' = [pc EXCEPT ![r] = "raster"]
                    /\ folders' = folders \cup {K}
                    /\ bucket' = upload(upload(bucket, gcs,
                                          <<"pdfs", K, "original.pdf">>, b),
                                        gcs, <<"pdfs", K, "metadata.json">>,
                                        [original_filename |-> f, user_id |-> u])
  /\ UNCHANGED <<gcs, pdfs, user_pdfs, bucketDb, localFiles, events, faults>>
  /\ UNCHANGED auth

(* process_pdf from file.save to the stream, for user u, upload f of bytes *)
(* b and difficulty level d at time now: save the upload, hash it, look    *)
(* the hash up; for an unknown hash derive the key, create uploads/K and   *)
(* upload the original and its metadata.                                   *)
process_pdf(r, u, f, b, d, now) ==
  LET h == calculate_file_hash(b)
      ex == get_pdf_by_hash(pdfs, h)
      K == storage_key(f, now)
      mine == [NoRq EXCEPT !.user = u, !.filename = f, !.bytes = b,
                           !.hash = h, !.prior = HashRows(pdfs, h) # {},
                           !.route = rq[r].route, !.scheme = rq[r].scheme,
                           !.token = rq[r].token, !.nth = rq[r].nth]
  IN /\ clock' = now
     /\ tempPdfs' = tempPdfs \cup {r}
     /\ IF ex # 0
          THEN /\ rq' = [rq EXCEPT ![r] =
                    [mine EXCEPT !.path = "dup", !.dbid = ex,
                                 !.existing_key = pdfs[ex].file_path]]
               /\ pc' = [pc EXCEPT ![r] = "assoc"]
               /\ UNCHANGED <<folders, bucket>>
          ELSE /\ rq' = [rq EXCEPT ![r] =
                    [mine EXCEPT !.path = "new", !.key = K]]
               /\ pc' = [pc EXCEPT ![r] = "raster"]
               /\ folders' = folders \cup {K}
               /\ bucket' = upload(upload(bucket, gcs,
                                     <<"pdfs", K, "original.pdf">>, b),
                                   gcs, <<"pdfs", K, "metadata.json">>,
                                   [original_filename |-> f,
                                    difficulty_level |-> d, user_id |-> u])

(* A process-pdf request of a user with a session, a PDF in the file part  *)
(* and no difficulty_level in the form.                                    *)
Submit(r) ==
  /\ pc[r] = "idle"
  /\ \A q \in Reqs : q < r => pc[q] # "idle"
  /\ \E u \in Users, f \in Filenames, b \in Contents, now \in clock..MaxClock :
       /\ u \in KnownUsers \/ u = Cardinality(KnownUsers) + 1
       /\ process_pdf(r, u, f, b, "detailed", now)
  /\ UNCHANGED <<gcs, pdfs, user_pdfs, bucketDb, localFiles, events, faults>>
  /\ UNCHANGED auth

RasterizeUnchecked(r) ==
  /\ pc[r] = "raster"
  /\ LET ex == get_pdf_by_hash(pdfs, rq[r].hash)
     IN /\ rq' = [rq EXCEPT ![r].n = page_count_of(rq[r].bytes), ![r].dbid = ex]
        /\ pc' = [pc EXCEPT ![r] = IF ex # 0 THEN "assoc" ELSE "add_ins"]
  /\ UNCHANGED <<clock, gcs, pdfs, user_pdfs, bucket, bucketDb, tempPdfs,
                 folders, localFiles, events, faults>>
  /\ UNCHANGED auth

(* generate(): images = convert_from_path(temp_pdf_path), which reads only *)
(* this request's own upload, and then add_pdf's                           *)
(* SELECT pdf_id FROM pdfs WHERE pdf_hash = ?                              *)
Rasterize(r) ==
  /\ pc[r] = "raster"
  /\ IF convert_from_path_ok(rq[r].bytes)
       THEN LET ex == get_pdf_by_hash(pdfs, rq[r].hash)
            IN /\ rq' = [rq EXCEPT ![r].n = page_count_of(rq[r].bytes),
                                   ![r].dbid = ex]
               /\ pc' = [pc EXCEPT ![r] = IF ex # 0 THEN "assoc" ELSE "add_ins"]
               /\ UNCHANGED events
       ELSE Fail(r, "rasterize")
  /\ UNCHANGED <<clock, gcs, pdfs, user_pdfs, bucket, bucketDb, tempPdfs,
                 folders, localFiles, faults>>
  /\ UNCHANGED auth

add_pdf_or_replace(tbl, row) ==
  IF \E k \in 1..Len(tbl) : tbl[k].file_path = row.file_path
    THEN [k \in 1..Len(tbl) |->
            IF tbl[k].file_path = row.file_path THEN row ELSE tbl[k]]
    ELSE Append(tbl, row)

(* INSERT INTO pdfs (title, file_path, pdf_hash, file_size, page_count)    *)
add_pdf(tbl, row) == Append(tbl, row)

(* add_pdf: INSERT INTO pdfs ...; commit; sync_db_to_cloud.  A violated    *)
(* UNIQUE raises sqlite3.IntegrityError, which add_pdf does not catch.     *)
AddPdfInsert(r) ==
  /\ pc[r] = "add_ins"
  /\ IF pdf_hash_unique(pdfs, rq[r].hash)
       THEN /\ pdfs' = add_pdf(pdfs,
                 [pdf_id |-> Len(pdfs) + 1,
                  title |-> original_pdf_name(rq[r].filename),
                  file_path |-> rq[r].key,
                  pdf_hash |-> rq[r].hash,
                  file_size |-> Len(rq[r].bytes),
                  page_count |-> rq[r].n])
            /\ bucketDb' = sync_db_to_cloud(bucketDb, gcs, pdfs', user_pdfs)
            /\ rq' = [rq EXCEPT ![r].dbid = Len(pdfs) + 1]
            /\ pc' = [pc EXCEPT ![r] = "assoc"]
            /\ UNCHANGED events
       ELSE /\ Fail(r, "IntegrityError")
            /\ UNCHANGED <<pdfs, bucketDb>>
  /\ UNCHANGED <<clock, gcs, user_pdfs, bucket, tempPdfs, folders, localFiles,
                 faults>>
  /\ UNCHANGED auth

(* What follows associate_pdf_with_user: on the duplicate path remove the  *)
(* upload and answer 'existing'; in generate() yield 'info'.               *)
AfterAssociate(r) ==
  IF rq[r].path = "dup"
    THEN /\ tempPdfs' = tempPdfs \ {r}
         /\ Emit(r, [type |-> "existing", pdf_name |-> rq[r].existing_key])
         /\ pc' = [pc EXCEPT ![r] = "done"]
         /\ UNCHANGED rq
    ELSE /\ Emit(r, [type |-> "info", total_pages |-> rq[r].n,
                     pdf_name |-> rq[r].key])
         /\ IF rq[r].n >= 1
              THEN /\ pc' = [pc EXCEPT ![r] = "page"]
                   /\ rq' = [rq EXCEPT ![r].i = 1]
              ELSE /\ pc' = [pc EXCEPT ![r] = "cleanup"]
                   /\ UNCHANGED rq
         /\ UNCHANGED tempPdfs

(* associate_pdf_with_user: SELECT id FROM user_pdfs WHERE ...             *)
AssocSelect(r) ==
  /\ pc[r] = "assoc"
  /\ IF link_exists(user_pdfs, rq[r].user, rq[r].dbid)
       THEN AfterAssociate(r)
       ELSE /\ pc' = [pc EXCEPT ![r] = "assoc_ins"]
            /\ UNCHANGED <<rq, events, tempPdfs>>
  /\ UNCHANGED <<clock, gcs, pdfs, user_pdfs, bucket, bucketDb, folders,
                 localFiles, faults>>
  /\ UNCHANGED auth

(* associate_pdf_with_user: INSERT INTO user_pdfs; commit; sync            *)
AssocInsert(r) ==
  /\ pc[r] = "assoc_ins"
  /\ user_pdfs' = Append(user_pdfs,
                    [user_id |-> rq[r].user, pdf_id |-> rq[r].dbid])
  /\ bucketDb' = sync_db_to_cloud(bucketDb, gcs, pdfs, user_pdfs')
  /\ AfterAssociate(r)
  /\ UNCHANGED <<clock, gcs, pdfs, bucket, folders, localFiles, faults>>
  /\ UNCHANGED auth

(* Files of key K below uploads/, as written by generate()                 *)
FilesOf(K) == {f \in localFiles : f[2] = K}

explanation_attempts_retry(eok) == IF eok THEN 1 ELSE 2

(* model.generate_content for a page: one call in a try, no loop around it *)
explanation_attempts(eok) == 1

(* requests.post(tts_url, ...) for a page: one request in a try            *)
narration_attempts(nok) == 1

(* One turn of the page loop of generate(), from the 'progress' yield to   *)
(* the 'page' yield: image.save and image upload; the explanation call and *)
(* its .md file (uploaded only when the call succeeded); the narration     *)
(* request and its .mp3 file.                                              *)
Page(r) ==
  /\ pc[r] = "page"
  /\ \E eok \in BOOLEAN, nok \in BOOLEAN :
       LET K == rq[r].key
           i == rq[r].i
           h == rq[r].hash
           failed == (IF eok THEN 0 ELSE 1) + (IF nok THEN 0 ELSE 1)
           b1 == upload(bucket, gcs, <<"images", K, i>>, <<h, i>>)
           b2 == IF eok THEN upload(b1, gcs, <<"text", K, i>>, <<h, i>>) ELSE b1
           b3 == IF nok THEN upload(b2, gcs, <<"audio", K, i>>, <<h, i>>) ELSE b2
       IN IF ~page_raises(K \in folders, eok, nok)
            THEN /\ faults + failed <= MaxFaults
                 /\ faults' = faults + failed
                 /\ events' = [events EXCEPT ![r] =
                      @ \o page_yields(i, rq[r].n, eok, nok)]
                 /\ localFiles' = localFiles
                      \cup {<<"page.jpg", K, i>>, <<"page.md", K, i>>}
                      \cup (IF nok THEN {<<"audio.mp3", K, i>>} ELSE {})
                 /\ bucket' = b3
                 /\ rq' = [rq EXCEPT
                      ![r].i = IF i < rq[r].n THEN i + 1 ELSE i,
                      ![r].efail = IF eok THEN @ ELSE @ \cup {i},
                      ![r].nfail = IF nok THEN @ ELSE @ \cup {i},
                      ![r].ecalls = @ \o [k \in 1..explanation_attempts(eok) |-> i],
                      ![r].ncalls = @ \o [k \in 1..narration_attempts(nok) |-> i]]
                 /\ pc' = [pc EXCEPT ![r] = IF i < rq[r].n THEN "page"
                                                           ELSE "cleanup"]
            ELSE /\ nok /\ (eok \/ K \in folders)
                 /\ faults + failed <= MaxFaults
                 /\ faults' = faults + failed
                 /\ events' = [events EXCEPT ![r] =
                      @ \o <<progress_event(i, rq[r].n),
                             [type |-> "error", error |-> "page"]>>]
                 /\ pc' = [pc EXCEPT ![r] = "done"]
                 /\ rq' = [rq EXCEPT ![r].fail = "page",
                                     ![r].efail = IF eok THEN @ ELSE @ \cup {i}]
                 /\ UNCHANGED <<localFiles, bucket>>
  /\ UNCHANGED <<clock, gcs, pdfs, user_pdfs, bucketDb, tempPdfs, folders>>
  /\ UNCHANGED auth

(* shutil.rmtree(temp_folder); os.remove(temp_pdf_path) in one try: when   *)
(* rmtree raises, the upload is not removed.  Then yield 'complete'.       *)
Cleanup(r) ==
  /\ pc[r] = "cleanup"
  /\ LET K == rq[r].key
     IN IF K \in folders
          THEN /\ folders' = folders \ {K}
               /\ localFiles' = localFiles \ FilesOf(K)
               /\ tempPdfs' = tempPdfs \ {r}
          ELSE UNCHANGED <<folders, localFiles, tempPdfs>>
  /\ Emit(r, [type |-> "complete", pdf_name |-> rq[r].key])
  /\ pc' = [pc EXCEPT ![r] = "done"]
  /\ UNCHANGED <<clock, gcs, pdfs, user_pdfs, bucket, bucketDb, rq, faults>>
  /\ UNCHANGED auth

Next ==
  \/ \E r \in Reqs : Submit(r)
  \/ \E r \in Reqs : Rasterize(r)
  \/ \E r \in Reqs : AddPdfInsert(r)
  \/ \E r \in Reqs : AssocSelect(r)
  \/ \E r \in Reqs : AssocInsert(r)
  \/ \E r \in Reqs : Page(r)
  \/ \E r \in Reqs : Cleanup(r)

Spec == Init /\ [][Next]_vars

(* A client whose request has ended (with 'existing', 'complete' or        *)
(* 'error') sends process-pdf again, at a later second; the thread's       *)
(* locals and its response stream start afresh.                            *)
Resubmit(r) ==
  /\ pc[r] = "done"
  /\ \E f \in Filenames, b \in Contents, now \in (clock + 1)..MaxClock :
       process_pdf(r, rq[r].user, f, b, "detailed", now)
  /\ events' = [events EXCEPT ![r] = <<>>]
  /\ UNCHANGED <<gcs, pdfs, user_pdfs, bucketDb, localFiles, faults>>
  /\ UNCHANGED auth

NextRetry ==
  \/ \E r \in Reqs : Submit(r)
  \/ \E r \in Reqs : Rasterize(r)
  \/ \E r \in Reqs : AddPdfInsert(r)
  \/ \E r \in Reqs : AssocSelect(r)
  \/ \E r \in Reqs : AssocInsert(r)
  \/ \E r \in Reqs : Page(r)
  \/ \E r \in Reqs : Cleanup(r)
  \/ \E r \in Reqs : Resubmit(r)

SpecRetry == Init /\ [][NextRetry]_vars

(* The page loop on its own: request 1 is an ingestion of a PDF of N pages *)
(* that has just yielded 'info'; N ranges up to MaxN.                      *)
InitPages ==
  \E N \in 1..MaxN, g \in {"none", "up"} :
    LET b == Ones(N)
        h == calculate_file_hash(b)
        K == storage_key("notes.pdf", 0)
        row == [pdf_id |-> 1, title |-> original_pdf_name("notes.pdf"),
                file_path |-> K, pdf_hash |-> h, file_size |-> Len(b),
                page_count |-> page_count_of(b)]
        link == [user_id |-> 1, pdf_id |-> 1]
    IN /\ clock = 0
       /\ gcs = g
       /\ pdfs = <<row>>
       /\ user_pdfs = <<link>>
       /\ bucket = upload(upload(<<>>, g, <<"pdfs", K, "original.pdf">>, b),
                          g, <<"pdfs", K, "metadata.json">>,
                          [original_filename |-> "notes.pdf", user_id |-> 1])
       /\ bucketDb = sync_db_to_cloud(<<>>, g, <<row>>, <<link>>)
       /\ tempPdfs = {1}
       /\ folders = {K}
       /\ localFiles = {}
       /\ pc = [r \in Reqs |-> IF r = 1 THEN "page" ELSE "idle"]
       /\ rq = [r \in Reqs |->
                  IF r = 1
                    THEN [NoRq EXCEPT !.user = 1, !.filename = "notes.pdf",
                                      !.bytes = b, !.hash = h, !.path = "new",
                                      !.key = K, !.dbid = 1,
                                      !.n = page_count_of(b), !.i = 1]
                    ELSE NoRq]
       /\ events = [r \in Reqs |->
                      IF r = 1
                        THEN <<[type |-> "info", total_pages |-> page_count_of(b),
                                pdf_name |-> K]>>
                        ELSE <<>>]
       /\ faults = 0
       /\ sessions = <<>>
       /\ issued = 0
       /\ tz = 0

NextPages == Page(1) \/ Cleanup(1)

SpecPages == InitPages /\ [][NextPages]_vars

(* ------------------------------ retrieval ------------------------------ *)

ReadPages == 1..MaxReadPages

(* The key of the stored PDF the read routes are asked for                 *)
ReadKey == storage_key("notes.pdf", 0)

(* Files below uploads/K in the layout the read routes probe, as           *)
(* src/appElevenLabs.py writes it: image_files/K_page_n.jpg,                *)
(* text_files/K_page_n.md, audio_files/K_page_n.mp3 ("audio.mp3", the path *)
(* generate() writes too), and the alternate names of possible_paths.      *)
(* "audio.mp3:empty" is audio_files/K_page_n.mp3 with no bytes in it.      *)
ImagePaths == <<"image_files/K_page.jpg", "image_files/page.jpg">>
AudioPaths == <<"audio.mp3", "audio_files/page.mp3", "audio_files/base_page.mp3">>
TextPath == "text_files/K_page.md"
EmptyAudio == "audio.mp3:empty"

(* The bytes of an artifact: both tiers hold the same bytes for one        *)
(* artifact, the audio regenerated from a text holds other bytes.          *)
bytes_of(kind, K, n) == <<"bytes", kind, K, n>>
tts_of(text) == <<"tts", text>>

(* for path in possible_paths: if os.path.exists(path): (and, for audio,   *)
(* os.path.getsize(path) > 0); 0 when the loop finds nothing               *)
first_existing(files, paths, K, n) ==
  LET S == {k \in DOMAIN paths : <<paths[k], K, n>> \in files}
  IN IF S = {} THEN 0 ELSE Lowest(S)

Redirect(path) == [status |-> 302, location |-> path]
NotFound == [status |-> 404]

(* What get_pdf_audio answers after it has regenerated and saved the       *)
(* audio: the code falls through to the 404 at the end of the route.       *)
regenerate_then(K, n) == NotFound

promote_never(available, exists) == FALSE

(* if gcs_available and not gcs_exists: upload_from_filename(...)          *)
promote(available, exists) == available /\ ~exists

serve_local_or_fail(result, sign_ok, gcs_path, file) ==
  IF result THEN Redirect(gcs_path) ELSE [status |-> 500]

(* if result: signed_url = generate_signed_url(...); if signed_url: return *)
(* redirect(signed_url).  In every other case, and when the upload raised: *)
(* return send_file(path)                                                  *)
serve_local(result, sign_ok, gcs_path, file) ==
  IF result /\ sign_ok THEN Redirect(gcs_path) ELSE [status |-> 200, file |-> file]

(* A remote call of this request that fails returns None: the client       *)
(* exists but the call raised inside cloud_storage.                        *)
mode_of(mode, ok) == IF mode = "up" /\ ~ok THEN "down" ELSE mode

(* get_pdf_audio(pdf_name, page_num): signed URL of the remote object;     *)
(* else the first non-empty local file, uploaded for future requests;      *)
(* else regeneration from text_files/K_page_n.md.                          *)
get_pdf_audio(bkt, files, mode, K, n, sign_ok, up_ok, tts_ok) ==
  LET gcs_path == <<"audio", K, n>>
      gcs_available == mode # "none"
      gcs_exists == gcs_available /\ gcs_path \in DOMAIN bkt
      hit == first_existing(files, AudioPaths, K, n)
      up == mode_of(mode, up_ok)
  IN IF gcs_exists /\ sign_ok
       THEN [resp |-> Redirect(gcs_path), bucket |-> bkt, files |-> files,
             regenerated |-> FALSE]
     ELSE IF hit # 0
       THEN LET result == promote(gcs_available, gcs_exists) /\ up = "up"
            IN [resp |-> serve_local(result, sign_ok, gcs_path,
                                      <<AudioPaths[hit], K, n>>),
                bucket |-> IF result
                             THEN upload(bkt, up, gcs_path,
                                         bytes_of("audio", K, n))
                             ELSE bkt,
                files |-> files, regenerated |-> FALSE]
     ELSE IF <<TextPath, K, n>> \in files /\ tts_ok
       THEN [resp |-> regenerate_then(K, n),
             bucket |-> upload(bkt, up, gcs_path,
                               tts_of(bytes_of("text", K, n))),
             files |-> (files \ {<<EmptyAudio, K, n>>})
                         \cup {<<"audio.mp3", K, n>>},
             regenerated |-> TRUE]
     ELSE [resp |-> NotFound, bucket |-> bkt, files |-> files,
           regenerated |-> FALSE]

(* get_pdf_image(pdf_name, page_num): signed URL of the remote object;     *)
(* else the first local file, uploaded for future requests; else 404.      *)
get_pdf_image(bkt, files, mode, K, n, sign_ok, up_ok) ==
  LET gcs_path == <<"images", K, n>>
      gcs_available == mode # "none"
      gcs_exists == gcs_available /\ gcs_path \in DOMAIN bkt
      hit == first_existing(files, ImagePaths, K, n)
      up == mode_of(mode, up_ok)
  IN IF gcs_exists /\ sign_ok
       THEN [resp |-> Redirect(gcs_path), bucket |-> bkt, files |-> files]
     ELSE IF hit # 0
       THEN LET result == promote(gcs_available, gcs_exists) /\ up = "up"
            IN [resp |-> serve_local(result, sign_ok, gcs_path,
                                      <<ImagePaths[hit], K, n>>),
                bucket |-> IF result
                             THEN upload(bkt, up, gcs_path,
                                         bytes_of("images", K, n))
                             ELSE bkt,
                files |-> files]
     ELSE [resp |-> NotFound, bucket |-> bkt, files |-> files]

(* An artifact that is not there: "" in the responses                      *)
NoData == <<>>

Range(seq) == {seq[k] : k \in DOMAIN seq}

Max(S) == CHOOSE k \in S : \A j \in S : j <= k

(* get_pdf_by_path: SELECT * FROM pdfs WHERE file_path = ?  (fetchone);    *)
(* the page_count of the row, 0 without a row                              *)
get_pdf_by_path(tbl, K) ==
  LET rows == {k \in 1..Len(tbl) : tbl[k].file_path = K}
  IN IF rows = {} THEN 0 ELSE tbl[Lowest(rows)].page_count

resolve_page_count_local_first(tbl, bkt, files, mode, K) ==
  LET db == get_pdf_by_path(tbl, K)
      listed == {o[3] : o \in {p \in DOMAIN bkt :
                                  p[1] = "images" /\ p[2] = K}}
      local == {f[3] : f \in {g \in files :
                                g[1] = ImagePaths[1] /\ g[2] = K}}
  IN IF db # 0 THEN db
     ELSE IF local # {} THEN Max(local)
     ELSE IF mode # "none" /\ listed # {} THEN Max(listed)
     ELSE 0

(* use_existing_pdf: the page count from the Catalog; when that is 0, the  *)
(* highest page_<n>.jpg listed under images/K/ in the bucket; when that is *)
(* 0 too, the highest <..>_page_<n>.jpg in uploads/K/image_files.          *)
resolve_page_count(tbl, bkt, files, mode, K) ==
  LET db == get_pdf_by_path(tbl, K)
      listed == {o[3] : o \in {p \in DOMAIN bkt :
                                  p[1] = "images" /\ p[2] = K}}
      local == {f[3] : f \in {g \in files :
                                g[1] = ImagePaths[1] /\ g[2] = K}}
  IN IF db # 0 THEN db
     ELSE IF mode # "none" /\ listed # {} THEN Max(listed)
     ELSE IF local # {} THEN Max(local)
     ELSE 0

(* One artifact of use_existing_pdf: download_as_string when the object    *)
(* exists; when that gave nothing, the local file, which is then uploaded  *)
(* whenever a client exists.  An empty local audio file is read and        *)
(* uploaded like any other.                                                *)
fetch(bkt, files, mode, prefix, name, K, n, dl_ok, up_ok) ==
  LET path == <<prefix, K, n>>
      remote == IF mode # "none" /\ path \in DOMAIN bkt /\ dl_ok
                  THEN bkt[path] ELSE NoData
      up == mode_of(mode, up_ok)
  IN IF remote # NoData
       THEN [data |-> remote, bucket |-> bkt]
     ELSE IF <<name, K, n>> \in files
       THEN [data |-> bytes_of(prefix, K, n),
             bucket |-> upload(bkt, up, path, bytes_of(prefix, K, n))]
     ELSE IF prefix = "audio" /\ <<EmptyAudio, K, n>> \in files
       THEN [data |-> NoData, bucket |-> upload(bkt, up, path, NoData)]
     ELSE [data |-> NoData, bucket |-> bkt]

inline_every_page(page_num) == TRUE

(* if page_num == 1: the pages whose image and audio go into the response  *)
inline(page_num) == page_num = 1

(* The routes a client reads the image and the audio of a page from        *)
image_url(K, n) == <<"/pdf", K, "image", n>>
audio_url(K, n) == <<"/pdf", K, "audio", n>>

(* for page_num in range(1, total_pages + 1): the explanation of every     *)
(* page, the inline image and audio of page 1 only                         *)
RECURSIVE fetch_pages(_, _, _, _, _, _, _, _)
fetch_pages(bkt, files, mode, K, page_num, total_pages, dl_ok, up_ok) ==
  IF page_num > total_pages
    THEN [pages |-> <<>>, bucket |-> bkt]
    ELSE LET t == fetch(bkt, files, mode, "text", TextPath, K, page_num,
                        dl_ok, up_ok)
             i == IF inline(page_num)
                    THEN fetch(t.bucket, files, mode, "images", ImagePaths[1],
                               K, page_num, dl_ok, up_ok)
                    ELSE [data |-> NoData, bucket |-> t.bucket]
             a == IF inline(page_num)
                    THEN fetch(i.bucket, files, mode, "audio", AudioPaths[1],
                               K, page_num, dl_ok, up_ok)
                    ELSE [data |-> NoData, bucket |-> i.bucket]
             rest == fetch_pages(a.bucket, files, mode, K, page_num + 1,
                                 total_pages, dl_ok, up_ok)
         IN [pages |-> <<[page_number |-> page_num, image |-> i.data,
                          explanation |-> t.data, audio |-> a.data,
                          audio_url |-> audio_url(K, page_num),
                          image_url |-> image_url(K, page_num)]>>
                         \o rest.pages,
             bucket |-> rest.bucket]

(* use_existing_pdf(pdf_name): metadata.json is promoted when only the     *)
(* local copy could be read; 404 without a page count; else every page.    *)
use_existing_pdf(tbl, bkt, files, mode, K, dl_ok, up_ok) ==
  LET meta == <<"pdfs", K, "metadata.json">>
      have == mode # "none" /\ meta \in DOMAIN bkt /\ dl_ok
      b0 == IF ~have /\ <<"metadata.json", K, 0>> \in files
              THEN upload(bkt, mode_of(mode, up_ok), meta,
                          bytes_of("metadata", K, 0))
              ELSE bkt
      total_pages == resolve_page_count(tbl, bkt, files, mode, K)
      got == fetch_pages(b0, files, mode, K, 1, total_pages, dl_ok, up_ok)
  IN IF total_pages = 0
       THEN [resp |-> NotFound, bucket |-> b0, files |-> files]
       ELSE [resp |-> [status |-> 200, total_pages |-> total_pages,
                       pdf_name |-> K, pages |-> got.pages],
             bucket |-> got.bucket, files |-> files]

(* get_pdf_versions_by_name(base_name): the file_path of the rows whose    *)
(* path is the base name, then of the rows whose path is LIKE base_name +  *)
(* '_%'.  A key <<slug, t>> stands for the text slug_t, so a path that is  *)
(* the bare base name is <<base_name>>, and a key matches the pattern when *)
(* its slug is the base name.                                              *)
get_pdf_versions_by_name(tbl, base_name) ==
  LET paths == [k \in 1..Len(tbl) |-> tbl[k].file_path]
      exact(p) == p = <<base_name>>
      like(p) == Len(p) = 2 /\ p[1] = base_name
  IN SelectSeq(paths, exact) \o SelectSeq(paths, like)


(* ------------------------- the read routes ----------------------------- *)

(* What a thread that serves a read route keeps: the route, its arguments, *)
(* which of its remote calls and capability calls succeed, and (history)   *)
(* the two tiers as the request found them.                                *)
NoRead == [op |-> "none", key |-> NoKey, page |-> 0, sign_ok |-> TRUE,
           up_ok |-> TRUE, dl_ok |-> TRUE, tts_ok |-> TRUE,
           regenerated |-> FALSE,
           before |-> [bucket |-> <<>>, files |-> {}]]

Before == [bucket |-> bucket, files |-> localFiles]

(* The answer of a read route is the whole response of its thread.         *)
Answer(r, req, out) ==
  /\ bucket' = out.bucket
  /\ localFiles' = out.files
  /\ folders' = IF out.files = {} THEN folders ELSE folders \cup {req.key}
  /\ events' = [events EXCEPT ![r] = <<out.resp>>]
  /\ rq' = [rq EXCEPT ![r] = req]
  /\ UNCHANGED <<clock, gcs, pdfs, user_pdfs, bucketDb, tempPdfs, pc, faults>>
  /\ UNCHANGED auth

(* GET /pdf/<pdf_name>/audio/<page_num>                                    *)
GetPdfAudio(r, K) ==
  /\ pc[r] = "idle"
  /\ \E n \in ReadPages, sign_ok \in BOOLEAN, up_ok \in BOOLEAN,
        tts_ok \in BOOLEAN :
       LET out == get_pdf_audio(bucket, localFiles, gcs, K, n,
                                sign_ok, up_ok, tts_ok)
       IN Answer(r, [NoRead EXCEPT !.op = "audio", !.key = K, !.page = n,
                                   !.sign_ok = sign_ok, !.up_ok = up_ok,
                                   !.tts_ok = tts_ok,
                                   !.regenerated = out.regenerated,
                                   !.before = Before],
                 out)

(* GET /pdf/<pdf_name>/image/<page_num>                                    *)
GetPdfImage(r, K) ==
  /\ pc[r] = "idle"
  /\ \E n \in ReadPages, sign_ok \in BOOLEAN, up_ok \in BOOLEAN :
       LET out == get_pdf_image(bucket, localFiles, gcs, K, n, sign_ok, up_ok)
       IN Answer(r, [NoRead EXCEPT !.op = "image", !.key = K, !.page = n,
                                   !.sign_ok = sign_ok, !.up_ok = up_ok,
                                   !.before = Before],
                 out)

(* GET /use-existing/<pdf_name>                                            *)
UseExistingPdf(r, K) ==
  /\ pc[r] = "idle"
  /\ \E dl_ok \in BOOLEAN, up_ok \in BOOLEAN :
       LET out == use_existing_pdf(pdfs, bucket, localFiles, gcs, K,
                                   dl_ok, up_ok)
       IN Answer(r, [NoRead EXCEPT !.op = "use", !.key = K,
                                   !.dl_ok = dl_ok, !.up_ok = up_ok,
                                   !.before = Before],
                 out)

(* The artifacts of one page in the bucket, and of one page below          *)
(* uploads/K: at most one of the names of an image, the text, and the      *)
(* audio under one name, empty or not.                                     *)
LocalOfPage(K, n) ==
  {i \cup t \cup a :
     i \in {{}} \cup {{<<ImagePaths[k], K, n>>} : k \in DOMAIN ImagePaths},
     t \in {{}, {<<TextPath, K, n>>}},
     a \in {{}, {<<EmptyAudio, K, n>>}}
             \cup {{<<AudioPaths[k], K, n>>} : k \in DOMAIN AudioPaths}}

(* A stored PDF of MaxReadPages pages, as earlier runs of the two apps     *)
(* that share uploads/ and the bucket have left it: any part of it may be  *)
(* in either tier, and the Catalog may or may not know the key.            *)
InitRead ==
  \E g \in {"none", "up"}, known \in BOOLEAN,
     remote \in [ReadPages -> SUBSET {"images", "text", "audio"}],
     local \in [ReadPages -> LocalOfPage(ReadKey, 0)],
     meta \in {"none", "local", "remote"} :
    LET K == ReadKey
        b == Ones(MaxReadPages)
        row == [pdf_id |-> 1, title |-> original_pdf_name("notes.pdf"),
                file_path |-> K, pdf_hash |-> calculate_file_hash(b),
                file_size |-> Len(b), page_count |-> page_count_of(b)]
        objects == {<<kind, K, n>> : kind \in {"images", "text", "audio"},
                                     n \in ReadPages}
        stored == {o \in objects : o[1] \in remote[o[3]]}
        files == UNION {{<<f[1], K, n>> : f \in local[n]} : n \in ReadPages}
    IN /\ clock = 0
       /\ gcs = g
       /\ pdfs = IF known THEN <<row>> ELSE <<>>
       /\ user_pdfs = <<>>
       /\ bucket = [o \in stored \cup
                       (IF meta = "remote"
                          THEN {<<"pdfs", K, "metadata.json">>} ELSE {}) |->
                     IF o[1] = "pdfs" THEN bytes_of("metadata", K, 0)
                                      ELSE bytes_of(o[1], K, o[3])]
       /\ bucketDb = <<>>
       /\ tempPdfs = {}
       /\ localFiles = files \cup (IF meta = "local"
                                     THEN {<<"metadata.json", K, 0>>} ELSE {})
       /\ folders = IF localFiles = {} THEN {} ELSE {K}
       /\ pc = [r \in Reqs |-> "idle"]
       /\ rq = [r \in Reqs |-> NoRead]
       /\ events = [r \in Reqs |-> <<>>]
       /\ faults = 0
       /\ sessions = <<>>
       /\ issued = 0
       /\ tz = 0

NextRead ==
  \/ GetPdfAudio(1, ReadKey)
  \/ GetPdfImage(1, ReadKey)
  \/ UseExistingPdf(1, ReadKey)

SpecRead == InitRead /\ [][NextRead]_vars

(* A stored PDF as use_existing_pdf may find it: a Catalog row with its    *)
(* page count or none, any of the page images 1..MaxListed in the bucket   *)
(* and, under either name, in uploads/K/image_files, and the text and      *)
(* audio of every page in the bucket or not.                               *)
InitListing ==
  \E g \in {"none", "up"}, count \in 0..MaxListed,
     remote \in SUBSET (1..MaxListed),
     local \in [1..MaxListed -> {"none"} \cup Range(ImagePaths)],
     rest \in BOOLEAN :
    LET K == ReadKey
        b == Ones(count)
        row == [pdf_id |-> 1, title |-> original_pdf_name("notes.pdf"),
                file_path |-> K, pdf_hash |-> calculate_file_hash(b),
                file_size |-> Len(b), page_count |-> page_count_of(b)]
        objects == {<<"images", K, n>> : n \in remote}
                     \cup (IF rest
                            THEN {<<kind, K, n>> : kind \in {"text", "audio"},
                                                   n \in 1..MaxListed}
                            ELSE {})
    IN /\ clock = 0
       /\ gcs = g
       /\ pdfs = IF count > 0 THEN <<row>> ELSE <<>>
       /\ user_pdfs = <<>>
       /\ bucket = [o \in objects |-> bytes_of(o[1], K, o[3])]
       /\ bucketDb = <<>>
       /\ tempPdfs = {}
       /\ localFiles = {<<local[n], K, n>> :
                          n \in {k \in 1..MaxListed : local[k] # "none"}}
       /\ folders = IF localFiles = {} THEN {} ELSE {K}
       /\ pc = [r \in Reqs |-> "idle"]
       /\ rq = [r \in Reqs |-> NoRead]
       /\ events = [r \in Reqs |-> <<>>]
       /\ faults = 0
       /\ sessions = <<>>
       /\ issued = 0
       /\ tz = 0

NextListing == UseExistingPdf(1, ReadKey)

SpecListing == InitListing /\ [][NextListing]_vars

(* Local-only mode: no storage client for the whole run.  Request 1 is an  *)
(* ingestion; request 2 is a read of the key of request 1 that follows     *)
(* the end of its stream.                                                  *)
InitLocal == Init /\ gcs = "none"

NextLocal ==
  \/ Submit(1)
  \/ Rasterize(1)
  \/ AddPdfInsert(1)
  \/ AssocSelect(1)
  \/ AssocInsert(1)
  \/ Page(1)
  \/ Cleanup(1)
  \/ (pc[1] = "done" /\ GetPdfImage(2, rq[1].key))
  \/ (pc[1] = "done" /\ UseExistingPdf(2, rq[1].key))

SpecLocal == InitLocal /\ [][NextLocal]_vars


(* --------------------------- the quiz ---------------------------------- *)

(* JSON values as json.loads yields them.  An element of a list is a       *)
(* mapping or not; of a mapping only its keys, the length of its options   *)
(* and its correctAnswer matter.  Invalid is what json.loads raises        *)
(* JSONDecodeError for.                                                    *)
QuizKeys == {"question", "options", "correctAnswer", "explanation"}

Item == [isdict |-> TRUE, keys |-> QuizKeys, options |-> 4,
         correctAnswer |-> "A"]

Repeat(x, n) == [k \in 1..n |-> x]

List(items) == [kind |-> "list", items |-> items]
Object == [kind |-> "object", items |-> <<>>]

Good5 == List(Repeat(Item, 5))
Good3 == List(Repeat(Item, 3))
ThreeOptions == List([Repeat(Item, 5) EXCEPT ![2].options = 3])
AnswerE == List([Repeat(Item, 5) EXCEPT ![5].correctAnswer = "E"])
NoOptions == List([Repeat(Item, 5) EXCEPT ![1].keys = QuizKeys \ {"options"},
                                          ![1].options = 0])
Strings == List(Repeat([Item EXCEPT !.isdict = FALSE, !.keys = {},
                                    !.options = 0, !.correctAnswer = ""], 5))

(* The JSON values a model output of this development can hold, in a fixed *)
(* order: a quiz file holds one of them.                                   *)
QuizValues == <<Good5, Good3, ThreeOptions, AnswerE, NoOptions,
                Strings, Object>>

(* A model output (response.text) is a sequence of tokens: a JSON value    *)
(* written out, the same with a trailing comma before its closing          *)
(* bracket, prose, or a fence of a markdown code block.                    *)
Tok(t, v) == [t |-> t, v |-> v]
Json(v) == Tok("json", v)
JsonComma(v) == Tok("json,", v)
FenceJson == Tok("fence json", Invalid)
Fence == Tok("fence", Invalid)
Prose == Tok("prose", Invalid)

Positions(text, toks) == {k \in DOMAIN text : text[k] \in toks}

(* s.split(sep)[1].split(fence)[0]: what follows the first sep, up to the *)
(* next fence of either kind                                               *)
between(text, sep) ==
  LET first == Lowest(Positions(text, {sep}))
      later == {k \in Positions(text, {Fence, FenceJson}) : k > first}
      stop == IF later = {} THEN Len(text) + 1 ELSE Lowest(later)
  IN SubSeq(text, first + 1, stop - 1)

(* if the json fence is in quiz_text: ... elif a fence is in it: ...       *)
extract_json(text) ==
  IF Positions(text, {FenceJson}) # {} THEN between(text, FenceJson)
  ELSE IF Positions(text, {Fence}) # {} THEN between(text, Fence)
  ELSE text

(* the two re.sub calls that drop a comma before a closing bracket         *)
remove_trailing_commas(text) ==
  [k \in DOMAIN text |->
     IF text[k].t = "json," THEN Json(text[k].v) ELSE text[k]]

(* json.loads: one JSON value and nothing else, or JSONDecodeError         *)
json_loads(text) ==
  IF Len(text) = 1 /\ text[1].t = "json" THEN text[1].v ELSE Invalid

(* json.dumps, and json.loads of what it wrote                             *)
json_dumps(v) == <<Json(v)>>

parse_quiz(text) == json_loads(remove_trailing_commas(extract_json(text)))

(* The validation of the first attempt: a list whose elements are          *)
(* mappings with the keys question, options and correctAnswer.             *)
valid_structure(v) ==
  /\ v.kind = "list"
  /\ \A k \in DOMAIN v.items :
       /\ v.items[k].isdict
       /\ {"question", "options", "correctAnswer"} \subseteq v.items[k].keys

(* What the quiz model may answer to either prompt                         *)
QuizTexts ==
  {<<Json(v)>> : v \in {Good5, Good3, ThreeOptions, AnswerE,
                        NoOptions, Strings, Object}}
    \cup {<<FenceJson, Json(Good5), Fence>>,
          <<Prose, Fence, Json(Good3), Fence, Prose>>,
          <<JsonComma(Good5)>>,
          <<Prose, Json(Good5)>>,
          <<Prose>>}

QuizObject(K) == <<"quiz", K, "quiz.json">>
QuizPath == "quiz_data/K_quiz.json"
QuizFolder == "quiz_data"

(* The place of a JSON value in QuizValues: the content of a quiz file     *)
quiz_index(v) == CHOOSE k \in DOMAIN QuizValues : QuizValues[k] = v

(* json.load(f) of uploads/K/quiz_data/K_quiz.json; Invalid without file   *)
local_quiz(files, K) ==
  LET found == {f \in files : f[1] = QuizPath /\ f[2] = K}
  IN IF found = {} THEN Invalid
     ELSE QuizValues[(CHOOSE f \in found : TRUE)[3]]

(* with open(local_quiz_path, 'w') as f: json.dump(quiz_data, f)           *)
write_quiz(files, K, v) ==
  {f \in files : ~(f[1] = QuizPath /\ f[2] = K)}
    \cup {<<QuizPath, K, quiz_index(v)>>}

(* A model call that raises instead of answering                           *)
Raises == <<Tok("raises", Invalid)>>

ServerError(e) == [status |-> 500, error |-> e]
Quiz(v) == [status |-> 200, quiz |-> v]

(* The explanations generate_quiz collects: those under text/K/ when a     *)
(* bucket is there and the downloads succeed.  "unbound" is the read of    *)
(* text_folder, which is assigned only when the bucket gave nothing and    *)
(* uploads/K exists; then the .md files of uploads/K/text_files.           *)
remote_explanations(bkt, mode, K, dl_ok) ==
  IF mode # "none" /\ dl_ok
    THEN {n \in ReadPages : <<"text", K, n>> \in DOMAIN bkt}
    ELSE {}

explanations_of(bkt, files, mode, K, pdf_exists, dl_ok) ==
  LET remote == remote_explanations(bkt, mode, K, dl_ok)
      local == {n \in ReadPages : <<TextPath, K, n>> \in files}
  IN IF ~(remote = {} /\ pdf_exists) THEN "unbound"
     ELSE IF local # {} THEN "texts"
     ELSE "none"

(* The pages whose image can be summarised: those listed under images/K/   *)
(* (read with download_as_string), else those of uploads/K/image_files.    *)
summarised_images(bkt, files, mode, K, pdf_exists, dl_ok) ==
  LET listed == IF mode # "none"
                  THEN {n \in ReadPages : <<"images", K, n>> \in DOMAIN bkt}
                  ELSE {}
      local == {n \in ReadPages :
                  \E k \in DOMAIN ImagePaths : <<ImagePaths[k], K, n>> \in files}
  IN IF listed # {} THEN [pages |-> IF dl_ok THEN listed ELSE {}]
     ELSE IF pdf_exists THEN [pages |-> local]
     ELSE [pages |-> {}]

(* except json.JSONDecodeError: the one failure that leads to the retry    *)
retries(v) == v = Invalid

(* if gcs_quiz_exists: quiz_content = download_as_string(...);             *)
(* if quiz_content: return jsonify(json.loads(quiz_content))               *)
memo_remote(exists, content) == exists /\ content

Respond(resp, bkt, files) == [resp |-> resp, bucket |-> bkt, files |-> files]

(* generate_quiz(pdf_name) up to the quiz prompt: the stored quiz of the   *)
(* bucket, 404 for an unknown key, the stored quiz of uploads/K (uploaded  *)
(* again), the explanations or page summaries to build the prompt from.    *)
(* go: whether the request goes on to ask the model for a quiz.            *)
quiz_lookup(bkt, files, dirs, mode, K, qdl_ok, dl_ok, up_ok, sum_ok) ==
  LET gcs_available == mode # "none"
      gcs_pdf_exists == gcs_available
                          /\ <<"pdfs", K, "original.pdf">> \in DOMAIN bkt
      gcs_quiz_exists == gcs_available /\ QuizObject(K) \in DOMAIN bkt
      pdf_exists == K \in dirs
      files1 == IF pdf_exists THEN files \cup {<<QuizFolder, K, 0>>} ELSE files
      stored == local_quiz(files, K)
      texts == explanations_of(bkt, files, mode, K, pdf_exists, dl_ok)
      images == summarised_images(bkt, files, mode, K, pdf_exists, dl_ok).pages
      summaries == IF texts = "none" THEN Cardinality(images) ELSE 0
      answer(resp, b, fs, summ) ==
        [go |-> FALSE, out |-> Respond(resp, b, fs), summaries |-> summ,
         pdf_exists |-> pdf_exists, collected |-> FALSE]
  IN IF memo_remote(gcs_quiz_exists, qdl_ok)
       THEN answer(Quiz(json_loads(bkt[QuizObject(K)])), bkt, files, 0)
     ELSE IF ~pdf_exists /\ ~gcs_pdf_exists
       THEN answer(NotFound, bkt, files, 0)
     ELSE IF stored # Invalid
       THEN answer(Quiz(stored),
                   upload(bkt, mode_of(mode, up_ok), QuizObject(K),
                          json_dumps(stored)),
                   files1, 0)
     ELSE IF texts = "unbound"
       THEN [answer(ServerError("UnboundLocalError"), bkt, files1, 0)
               EXCEPT !.collected =
                 remote_explanations(bkt, mode, K, dl_ok) # {}]
     ELSE IF texts = "none" /\ (images = {} \/ ~sum_ok)
       THEN answer(NotFound, bkt, files1, summaries)
     ELSE [go |-> TRUE, out |-> Respond(NotFound, bkt, files1),
           summaries |-> summaries, pdf_exists |-> pdf_exists,
           collected |-> FALSE]

(* Storing and returning a quiz: the local file when uploads/K was there,  *)
(* then the upload, whose failure is not looked at.                        *)
persist(bkt, files, mode, K, pdf_exists, up_ok, v, calls) ==
  [resp |-> Quiz(v),
   bucket |-> upload(bkt, mode_of(mode, up_ok), QuizObject(K), json_dumps(v)),
   files |-> IF pdf_exists THEN write_quiz(files, K, v) ELSE files,
   calls |-> calls, fresh |-> TRUE]

(* generate_quiz from the quiz prompt on.  text1 and text2 are what the    *)
(* model answers to the 5-question prompt and to the 3-question prompt.    *)
quiz_generate(bkt, files, mode, K, pdf_exists, up_ok, text1, text2) ==
  LET v1 == parse_quiz(text1)
      v2 == parse_quiz(text2)
      failed(e, calls) ==
        [resp |-> ServerError(e), bucket |-> bkt, files |-> files,
         calls |-> calls, fresh |-> FALSE]
  IN IF text1 = Raises THEN failed("generate_content", 1)
     ELSE IF retries(v1)
       THEN IF text2 = Raises \/ v2 = Invalid
              THEN failed("Failed to generate valid quiz format", 2)
              ELSE persist(bkt, files, mode, K, pdf_exists, up_ok, v2, 2)
     ELSE IF ~valid_structure(v1) THEN failed("ValueError", 1)
     ELSE persist(bkt, files, mode, K, pdf_exists, up_ok, v1, 1)

(* ------------------------- the quiz route ------------------------------ *)

(* The locals of a thread that serves POST /generate-quiz/<pdf_name>, and  *)
(* history: the two tiers as the request found them, the quizzes whose     *)
(* generation had ended when it came in (prior), the parsed first answer   *)
(* of the model (first), the number of quiz prompts sent (calls), and the  *)
(* quiz this thread generated last (done_gen); collected: the request got  *)
(* as far as collecting explanations and the bucket gave at least one (a   *)
(* request that goes on to the prompt from explanations has them from      *)
(* uploads/K, none from the bucket).                                       *)
NoQuiz == [op |-> "none", key |-> NoKey, pdf_exists |-> FALSE,
           qdl_ok |-> TRUE, collected |-> FALSE, nth |-> 0,
           summaries |-> 0, calls |-> 0,
           fresh |-> FALSE,
           asked |-> FALSE, first |-> Invalid, done_gen |-> Invalid,
           prior |-> {}, before |-> [bucket |-> <<>>, files |-> {}]]

Generated == {rq[q].done_gen : q \in Reqs} \ {Invalid}

QuizStart(r, K) ==
  /\ pc[r] = "idle"
  /\ rq[r].nth < MaxQuizCalls
  /\ \E qdl_ok \in BOOLEAN, dl_ok \in BOOLEAN, up_ok \in BOOLEAN,
        sum_ok \in BOOLEAN :
       LET got == quiz_lookup(bucket, localFiles, folders, gcs, K,
                              qdl_ok, dl_ok, up_ok, sum_ok)
           req == [NoQuiz EXCEPT !.op = "quiz", !.key = K,
                                 !.pdf_exists = got.pdf_exists,
                                 !.qdl_ok = qdl_ok,
                                 !.collected = got.collected,
                                 !.nth = rq[r].nth + 1,
                                 !.summaries = got.summaries,
                                 !.done_gen = rq[r].done_gen,
                                 !.prior = Generated,
                                 !.before = Before]
       IN /\ bucket' = got.out.bucket
          /\ localFiles' = got.out.files
          /\ rq' = [rq EXCEPT ![r] = req]
          /\ IF got.go
               THEN /\ pc' = [pc EXCEPT ![r] = "quiz"]
                    /\ events' = [events EXCEPT ![r] = <<>>]
               ELSE /\ events' = [events EXCEPT ![r] = <<got.out.resp>>]
                    /\ UNCHANGED pc
  /\ UNCHANGED <<clock, gcs, pdfs, user_pdfs, bucketDb, tempPdfs, folders,
                 faults>>
  /\ UNCHANGED auth

QuizFinish(r, answers) ==
  /\ pc[r] = "quiz"
  /\ \E up_ok \in BOOLEAN, text1 \in answers :
     \E text2 \in IF text1 # Raises /\ retries(parse_quiz(text1))
                     THEN answers ELSE {Raises} :
       LET out == quiz_generate(bucket, localFiles, gcs, rq[r].key,
                                rq[r].pdf_exists, up_ok, text1, text2)
       IN /\ bucket' = out.bucket
          /\ localFiles' = out.files
          /\ events' = [events EXCEPT ![r] = <<out.resp>>]
          /\ rq' = [rq EXCEPT
               ![r].calls = out.calls,
               ![r].fresh = out.fresh,
               ![r].asked = TRUE,
               ![r].first = IF text1 = Raises THEN Invalid
                                              ELSE parse_quiz(text1),
               ![r].done_gen = IF out.fresh THEN out.resp.quiz ELSE @]
          /\ pc' = [pc EXCEPT ![r] = "idle"]
  /\ UNCHANGED <<clock, gcs, pdfs, user_pdfs, bucketDb, tempPdfs, folders,
                 faults>>
  /\ UNCHANGED auth

(* A key whose artifacts earlier runs have left in the two tiers, with or  *)
(* without a stored quiz in each.                                          *)
StoredQuizzes == {Good5, Good3}

InitQuiz ==
  \E g \in {"none", "up"}, original \in BOOLEAN, folder \in BOOLEAN,
     remote \in SUBSET {"images", "text"},
     local \in SUBSET {ImagePaths[1], TextPath},
     rquiz \in StoredQuizzes \cup {Invalid},
     lquiz \in StoredQuizzes \cup {Invalid} :
    LET K == ReadKey
        objects == {<<kind, K, 1>> : kind \in remote}
                     \cup (IF original THEN {<<"pdfs", K, "original.pdf">>}
                                       ELSE {})
                     \cup (IF rquiz # Invalid THEN {QuizObject(K)} ELSE {})
        files == {<<name, K, 1>> : name \in local}
                   \cup (IF lquiz # Invalid
                           THEN {<<QuizFolder, K, 0>>,
                                 <<QuizPath, K, quiz_index(lquiz)>>}
                           ELSE {})
    IN /\ g = "none" => objects = {}
       /\ ~folder => files = {}
       /\ clock = 0
       /\ gcs = g
       /\ pdfs = <<>>
       /\ user_pdfs = <<>>
       /\ bucket = [o \in objects |->
                     IF o = QuizObject(K) THEN json_dumps(rquiz)
                                          ELSE bytes_of(o[1], K, 1)]
       /\ bucketDb = <<>>
       /\ tempPdfs = {}
       /\ localFiles = files
       /\ folders = IF folder THEN {K} ELSE {}
       /\ pc = [r \in Reqs |-> "idle"]
       /\ rq = [r \in Reqs |-> NoQuiz]
       /\ events = [r \in Reqs |-> <<>>]
       /\ faults = 0
       /\ sessions = <<>>
       /\ issued = 0
       /\ tz = 0

(* One client, whose requests follow one another; the model may answer    *)
(* anything or raise.                                                      *)
NextQuiz ==
  \/ QuizStart(1, ReadKey)
  \/ QuizFinish(1, QuizTexts \cup {Raises})

SpecQuiz == InitQuiz /\ [][NextQuiz]_vars

(* Two clients, whose requests run in threads of their own; the model      *)
(* answers one of two well-formed quizzes.                                 *)
TwoQuizzes == {<<Json(Good5)>>, <<FenceJson, Json(Good3), Fence>>}

NextQuizClients ==
  \/ \E r \in Reqs : QuizStart(r, ReadKey)
  \/ \E r \in Reqs : QuizFinish(r, TwoQuizzes)

SpecQuizClients == InitQuiz /\ [][NextQuizClients]_vars

(* ------------------------------ sessions ------------------------------- *)

(* timedelta(days=7), in ticks of the clock                                *)
Lifetime == 2

(* The hours the server's zone may be ahead of UTC: the environment's.     *)
Zones == {-1, 0, 1}

(* Session tokens: 0 is the empty string, 1..MaxLogins the uuid4 values    *)
(* create_session can hand out, MaxLogins + 1 one that is never issued.    *)
NoToken == 0
Tokens == 0..(MaxLogins + 1)

(* The Authorization header of a request                                   *)
Headers ==
  {[scheme |-> "none", token |-> NoToken], [scheme |-> "Basic", token |-> 1]}
    \cup {[scheme |-> "Bearer", token |-> t] : t \in Tokens}

(* datetime.now(): the wall clock of the server's zone                     *)
datetime_now(now, zone) == now + zone

(* SQLite's datetime('now'): UTC                                           *)
sqlite_now(now) == now

(* INSERT INTO sessions (user_id, token, expires_at) with                  *)
(* expires_at = datetime.now() + timedelta(days=7)                         *)
create_session(tbl, u, t, now, zone) ==
  Append(tbl, [user_id |-> u, token |-> t,
               expires_at |-> datetime_now(now, zone) + Lifetime])

(* WHERE s.token = ? AND s.expires_at > datetime('now')                    *)
LiveRows(tbl, t, now) ==
  {k \in 1..Len(tbl) : tbl[k].token = t /\ tbl[k].expires_at > sqlite_now(now)}

(* DELETE FROM sessions WHERE expires_at <= datetime("now")                *)
purge_expired(tbl, now) ==
  LET Keep(s) == s.expires_at > sqlite_now(now) IN SelectSeq(tbl, Keep)

delete_session_of_user(tbl, t) ==
  LET Owners == {tbl[k].user_id : k \in {j \in 1..Len(tbl) : tbl[j].token = t}}
      Keep(s) == s.user_id \notin Owners
  IN SelectSeq(tbl, Keep)

(* DELETE FROM sessions WHERE token = ?                                    *)
delete_session(tbl, t) ==
  LET Keep(s) == s.token # t IN SelectSeq(tbl, Keep)

(* get_current_user: the user of the live session with the token, 0 for    *)
(* None; a lookup that finds nothing purges the expired sessions, commits  *)
(* and syncs.  A query that raises is caught and gives None.               *)
get_current_user(tbl, t, now, db) ==
  IF t = NoToken THEN [user |-> 0, sessions |-> tbl, wrote |-> FALSE]
  ELSE IF db # "ok" THEN [user |-> 0, sessions |-> tbl, wrote |-> FALSE]
  ELSE IF LiveRows(tbl, t, now) # {}
    THEN [user |-> tbl[Lowest(LiveRows(tbl, t, now))].user_id,
          sessions |-> tbl, wrote |-> FALSE]
    ELSE [user |-> 0, sessions |-> purge_expired(tbl, now), wrote |-> TRUE]

(* login_required up to the call of f: 401 without a Bearer header, else   *)
(* the user get_current_user finds for the word after 'Bearer '.           *)
login_required(tbl, header, now, db) ==
  IF header.scheme # "Bearer"
    THEN [user |-> 0, sessions |-> tbl, wrote |-> FALSE]
    ELSE get_current_user(tbl, header.token, now, db)

(* jsonify({...}), status and the page of Flask for an exception that      *)
(* leaves a view function                                                  *)
jsonify(status, body) == [status |-> status, body |-> body]
Unauthorized == jsonify(401, "error")
BadRequest == jsonify(400, "error")
Unhandled == [status |-> 500, body |-> "html"]

Reply(r, resp) == events' = [events EXCEPT ![r] = <<resp>>]

after_guard_always_admitted(user) == "admitted"

(* if not user: return jsonify({'error': ...}), 401, else return f(...)    *)
after_guard(user) == IF user = 0 THEN "idle" ELSE "admitted"

(* A request to a route under @login_required, up to the call of the view  *)
(* function.  nth counts the requests of the client.                       *)
LoginRequired(r, route) ==
  /\ pc[r] = "idle"
  /\ rq[r].nth < MaxCalls
  /\ \E header \in Headers, now \in clock..MaxAuthClock, db \in {"ok", "fail"} :
       LET a == login_required(sessions, header, now, db)
       IN /\ clock' = now
          /\ sessions' = a.sessions
          /\ bucketDb' = IF a.wrote
                           THEN sync_db_to_cloud(bucketDb, gcs, pdfs, user_pdfs)
                           ELSE bucketDb
          /\ rq' = [rq EXCEPT ![r] =
                 [NoRq EXCEPT !.route = route, !.scheme = header.scheme,
                              !.token = header.token, !.user = a.user,
                              !.nth = rq[r].nth + 1]]
          /\ pc' = [pc EXCEPT ![r] = after_guard(a.user)]
          /\ events' = [events EXCEPT ![r] =
                 IF a.user = 0 THEN <<Unauthorized>> ELSE <<>>]
  /\ UNCHANGED <<gcs, pdfs, user_pdfs, bucket, tempPdfs, folders, localFiles,
                 faults, issued, tz>>

(* What request.files and request.form can hold for process-pdf            *)
NoFile == "no file part"
Uploads == {NoFile, "", "notes.txt", "NOTES.PDF", "notes.pdf", "Notes.pdf"}
Levels == {"simple", "detailed"}
AuthContents == {Ones(1), Ones(2)}

(* file.filename.endswith('.pdf')                                          *)
endswith_pdf(f) == f \in {"notes.pdf", "Notes.pdf"}

validate_upload_accepts_all(f) == TRUE

(* The three checks of process_pdf that answer 400                         *)
validate_upload(f) == f # NoFile /\ f # "" /\ endswith_pdf(f)

(* The view function of process-pdf: the checks, then the upload is saved, *)
(* hashed and looked up.  get_pdf_by_hash has no handler of its own: when  *)
(* it raises, the scratch file stays and Flask answers.                    *)
ProcessPdf(r) ==
  /\ pc[r] = "admitted"
  /\ rq[r].route = "process-pdf"
  /\ \E f \in Uploads, b \in AuthContents, d \in Levels, db \in {"ok", "fail"} :
       IF ~validate_upload(f)
         THEN /\ Reply(r, BadRequest)
              /\ pc' = [pc EXCEPT ![r] = "idle"]
              /\ rq' = [rq EXCEPT ![r].filename = f]
              /\ UNCHANGED <<clock, bucket, tempPdfs, folders>>
         ELSE IF db = "fail"
           THEN /\ Reply(r, Unhandled)
                /\ pc' = [pc EXCEPT ![r] = "idle"]
                /\ rq' = [rq EXCEPT ![r].filename = f]
                /\ tempPdfs' = tempPdfs \cup {r}
                /\ UNCHANGED <<clock, bucket, folders>>
           ELSE /\ process_pdf(r, rq[r].user, f, b, d, clock)
                /\ UNCHANGED events
  /\ UNCHANGED <<gcs, pdfs, user_pdfs, bucketDb, localFiles, faults>>
  /\ UNCHANGED auth

(* SELECT p.* FROM pdfs p JOIN user_pdfs up ... WHERE up.user_id = ?       *)
get_user_pdfs(p, l, u) ==
  {k \in 1..Len(p) : \E j \in 1..Len(l) : l[j].user_id = u /\ l[j].pdf_id = k}

(* The folder below uploads/K a file is in                                 *)
dir_of(name) ==
  IF name \in Range(ImagePaths) THEN "image_files"
  ELSE IF name = TextPath THEN "text_files"
  ELSE IF name \in Range(AudioPaths) \cup {EmptyAudio} THEN "audio_files"
  ELSE ""

(* os.path.exists of image_files, text_files and audio_files below         *)
(* uploads/K                                                               *)
has_structure(files, K) ==
  \A d \in {"image_files", "text_files", "audio_files"} :
    \E g \in files : g[2] = K /\ dir_of(g[1]) = d

(* The view function of existing-pdfs: the user's records that are in the  *)
(* bucket or have the three folders on disk; the metadata of one found on  *)
(* disk only is uploaded.  Whatever raises is answered with 500 and a JSON *)
(* error.                                                                  *)
ExistingPdfs(r) ==
  /\ pc[r] = "admitted"
  /\ rq[r].route = "existing-pdfs"
  /\ \E db \in {"ok", "fail"} :
       LET mine == get_user_pdfs(pdfs, user_pdfs, rq[r].user)
           remote == {k \in mine : gcs = "up" /\
                        <<"pdfs", pdfs[k].file_path, "original.pdf">> \in DOMAIN bucket}
           disk == {k \in mine \ remote : has_structure(localFiles, pdfs[k].file_path)}
           Meta(k) == <<"pdfs", pdfs[k].file_path, "metadata.json">>
       IN IF db = "fail"
            THEN /\ Reply(r, jsonify(500, "error"))
                 /\ UNCHANGED bucket
            ELSE /\ Reply(r, [status |-> 200, body |-> "ok",
                              pdfs |-> {pdfs[k].file_path : k \in remote \cup disk}])
                 /\ bucket' = IF gcs = "up"
                     THEN [p \in DOMAIN bucket \cup {Meta(k) : k \in disk} |->
                             IF \E k \in disk : p = Meta(k) THEN NoData ELSE bucket[p]]
                     ELSE bucket
  /\ pc' = [pc EXCEPT ![r] = "idle"]
  /\ UNCHANGED <<clock, gcs, pdfs, user_pdfs, bucketDb, tempPdfs, folders,
                 localFiles, rq, faults>>
  /\ UNCHANGED auth

(* What the body of a login request can be: not JSON, JSON without a       *)
(* field, a wrong password, the credentials of user u.                     *)
Credentials == {"not json", "missing", "wrong"}

(* The login route: request.json, the two checks, login_user.              *)
(* get_user_by_username has no handler; create_session has one.            *)
Login(r) ==
  /\ pc[r] = "idle"
  /\ issued < MaxLogins
  /\ \E u \in Users, body \in Credentials \cup {"good"},
        now \in clock..MaxAuthClock, db \in {"ok", "select", "insert"} :
       /\ clock' = now
       /\ IF body = "not json" \/ (body # "missing" /\ db = "select")
            THEN /\ Reply(r, Unhandled)
                 /\ UNCHANGED <<sessions, issued, bucketDb>>
            ELSE IF body = "missing"
              THEN /\ Reply(r, BadRequest)
                   /\ UNCHANGED <<sessions, issued, bucketDb>>
              ELSE IF body = "wrong" \/ db = "insert"
                THEN /\ Reply(r, Unauthorized)
                     /\ UNCHANGED <<sessions, issued, bucketDb>>
                ELSE /\ Reply(r, [status |-> 200, body |-> "ok",
                                  session_token |-> issued + 1])
                     /\ sessions' = create_session(sessions, u, issued + 1, now, tz)
                     /\ issued' = issued + 1
                     /\ bucketDb' = sync_db_to_cloud(bucketDb, gcs, pdfs, user_pdfs)
  /\ UNCHANGED <<gcs, pdfs, user_pdfs, bucket, tempPdfs, folders, localFiles,
                 pc, rq, faults, tz>>

(* The logout route: 400 without a Bearer header, else logout_user, whose  *)
(* get_db_connection has no handler and whose DELETE has one.              *)
Logout(r) ==
  /\ pc[r] = "idle"
  /\ \E header \in Headers, db \in {"ok", "connect", "delete"} :
       IF header.scheme # "Bearer"
         THEN /\ Reply(r, BadRequest)
              /\ UNCHANGED <<sessions, bucketDb>>
         ELSE IF db = "connect"
           THEN /\ Reply(r, Unhandled)
                /\ UNCHANGED <<sessions, bucketDb>>
           ELSE IF db = "delete"
             THEN /\ Reply(r, BadRequest)
                  /\ UNCHANGED <<sessions, bucketDb>>
             ELSE /\ sessions' = delete_session(sessions, header.token)
                  /\ bucketDb' = sync_db_to_cloud(bucketDb, gcs, pdfs, user_pdfs)
                  /\ Reply(r, IF sessions' # sessions
                                THEN jsonify(200, "ok") ELSE BadRequest)
  /\ UNCHANGED <<clock, gcs, pdfs, user_pdfs, bucket, tempPdfs, folders,
                 localFiles, pc, rq, faults, issued, tz>>

(* Two registered users and one stored PDF of one page that user 1 has     *)
(* uploaded, kept in the bucket or on disk; the zone of the server is the  *)
(* environment's.                                                          *)
InitAuth ==
  \E tier \in {"remote", "local"}, zone \in Zones :
    LET K == ReadKey
        b == Ones(1)
        row == [pdf_id |-> 1, title |-> original_pdf_name("notes.pdf"),
                file_path |-> K, pdf_hash |-> calculate_file_hash(b),
                file_size |-> Len(b), page_count |-> page_count_of(b)]
    IN /\ clock = 0
       /\ gcs = "up"
       /\ pdfs = <<row>>
       /\ user_pdfs = <<[user_id |-> 1, pdf_id |-> 1]>>
       /\ bucket = IF tier = "remote"
                     THEN [o \in {<<"pdfs", K, "original.pdf">>} |-> b]
                     ELSE <<>>
       /\ bucketDb = <<pdfs, user_pdfs>>
       /\ tempPdfs = {}
       /\ localFiles = IF tier = "local"
                         THEN {<<ImagePaths[1], K, 1>>, <<TextPath, K, 1>>,
                               <<AudioPaths[1], K, 1>>}
                         ELSE {}
       /\ folders = IF tier = "local" THEN {K} ELSE {}
       /\ pc = [r \in Reqs |-> "idle"]
       /\ rq = [r \in Reqs |-> NoRq]
       /\ events = [r \in Reqs |-> <<>>]
       /\ faults = 0
       /\ sessions = <<>>
       /\ issued = 0
       /\ tz = zone

(* One client uploads, up to the start of the stream; the other logs in    *)
(* and out and lists its documents.                                        *)
NextAuth ==
  \/ LoginRequired(1, "process-pdf")
  \/ ProcessPdf(1)
  \/ Login(2)
  \/ Logout(2)
  \/ LoginRequired(2, "existing-pdfs")
  \/ ExistingPdfs(2)

SpecAuth == InitAuth /\ [][NextAuth]_vars

(* ------------------------ the functions of auth.py --------------------- *)

SessionTokens == 0..(MaxSessions + 1)

(* logout_user: the DELETE, commit and sync in a try; cursor.rowcount      *)
(* decides between success and 'Invalid session token'; an exception gives *)
(* 'Database error'.                                                       *)
logout_user(tbl, t, db) ==
  IF db # "ok"
    THEN [result |-> [success |-> FALSE, error |-> "Database error"],
          sessions |-> tbl]
    ELSE LET out == delete_session(tbl, t)
             rowcount == Len(tbl) - Len(out)
         IN [result |-> IF rowcount > 0
                          THEN [success |-> TRUE, error |-> ""]
                          ELSE [success |-> FALSE,
                                error |-> "Invalid session token"],
             sessions |-> out]

(* The user of the session with token t, 0 when there is none              *)
owner_of(tbl, t) ==
  LET rows == {k \in 1..Len(tbl) : tbl[k].token = t}
  IN IF rows = {} THEN 0 ELSE tbl[Lowest(rows)].user_id

(* A call of a function of auth.py by client r; the locals keep the        *)
(* function, its token argument, the user the token belonged to, and       *)
(* whether the database raised (fail).                                     *)
Called(r, fn, t, db) ==
  rq' = [rq EXCEPT ![r] =
           [NoRq EXCEPT !.route = fn, !.token = t,
                        !.user = owner_of(sessions, t),
                        !.fail = IF db = "ok" THEN "none" ELSE "db",
                        !.nth = rq[r].nth + 1]]

(* login_user for a registered user with the right password                *)
CreateSession(r) ==
  /\ rq[r].nth < MaxAuthCalls
  /\ issued < MaxSessions
  /\ \E u \in Users, now \in clock..MaxAuthClock :
       /\ clock' = now
       /\ sessions' = create_session(sessions, u, issued + 1, now, tz)
       /\ issued' = issued + 1
       /\ Called(r, "login", issued + 1, "ok")
       /\ Reply(r, [success |-> TRUE, session_token |-> issued + 1])
  /\ bucketDb' = sync_db_to_cloud(bucketDb, gcs, pdfs, user_pdfs)
  /\ UNCHANGED <<gcs, pdfs, user_pdfs, bucket, tempPdfs, folders, localFiles,
                 pc, faults, tz>>

LogoutUser(r) ==
  /\ rq[r].nth < MaxAuthCalls
  /\ \E t \in SessionTokens, db \in {"ok", "raises"} :
       LET out == logout_user(sessions, t, db)
       IN /\ sessions' = out.sessions
          /\ Called(r, "logout", t, db)
          /\ Reply(r, out.result)
          /\ bucketDb' = IF db = "ok"
                           THEN sync_db_to_cloud(bucketDb, gcs, pdfs, user_pdfs)
                           ELSE bucketDb
  /\ UNCHANGED <<clock, gcs, pdfs, user_pdfs, bucket, tempPdfs, folders,
                 localFiles, pc, faults, issued, tz>>

GetCurrentUser(r) ==
  /\ rq[r].nth < MaxAuthCalls
  /\ \E t \in SessionTokens, now \in clock..MaxAuthClock,
        db \in {"ok", "raises"} :
       LET out == get_current_user(sessions, t, now, db)
       IN /\ clock' = now
          /\ sessions' = out.sessions
          /\ Called(r, "validate", t, db)
          /\ Reply(r, [user |-> out.user])
          /\ bucketDb' = IF out.wrote
                           THEN sync_db_to_cloud(bucketDb, gcs, pdfs, user_pdfs)
                           ELSE bucketDb
  /\ UNCHANGED <<gcs, pdfs, user_pdfs, bucket, tempPdfs, folders, localFiles,
                 pc, faults, issued, tz>>

(* No session yet; the zone of the server is the environment's.            *)
InitSessions ==
  /\ clock = 0
  /\ gcs \in {"none", "up"}
  /\ pdfs = <<>>
  /\ user_pdfs = <<>>
  /\ bucket = <<>>
  /\ bucketDb = <<>>
  /\ tempPdfs = {}
  /\ folders = {}
  /\ localFiles = {}
  /\ pc = [r \in Reqs |-> "idle"]
  /\ rq = [r \in Reqs |-> NoRq]
  /\ events = [r \in Reqs |-> <<>>]
  /\ faults = 0
  /\ sessions = <<>>
  /\ issued = 0
  /\ tz \in Zones

(* One caller: the functions run one at a time.                            *)
NextSessions ==
  \/ CreateSession(1)
  \/ LogoutUser(1)
  \/ GetCurrentUser(1)

SpecSessions == InitSessions /\ [][NextSessions]_vars

(* ----------------------- ContentStore operations ----------------------- *)

(* What a call returns or raises, and the bucket after it.  mode is "up"   *)
(* when get_storage_client returns a client; fault says that the call of   *)
(* the client library raises.                                              *)
Ret(kind, val, store) == [kind |-> kind, val |-> val, store |-> store]

(* upload_file, and upload_from_file and upload_from_filename, which       *)
(* differ in where the bytes come from: blob.name, or None                 *)
upload_file(store, mode, path, val, fault) ==
  IF mode # "up" \/ fault THEN Ret("None", NoData, store)
  ELSE Ret("name", path, Put(store, path, val))

(* generate_signed_url: None for a blob that does not exist                *)
generate_signed_url(store, mode, path, fault) ==
  IF mode # "up" \/ fault \/ path \notin DOMAIN store
    THEN Ret("None", NoData, store)
    ELSE Ret("url", <<"signed", path>>, store)

(* download_file: blob.download_to_filename is not in a try; it raises     *)
(* NotFound for a blob that does not exist.                                *)
download_file(store, mode, path, fault) ==
  IF mode # "up" THEN Ret("None", NoData, store)
  ELSE IF fault \/ path \notin DOMAIN store THEN Ret("raise", NoData, store)
  ELSE Ret("path", path, store)

(* download_as_string: the bytes, or None                                  *)
download_as_string(store, mode, path, fault) ==
  IF mode # "up" \/ fault \/ path \notin DOMAIN store
    THEN Ret("None", NoData, store)
    ELSE Ret("bytes", store[path], store)

(* check_if_file_exists: blob.exists(), or False                           *)
check_if_file_exists(store, mode, path, fault) ==
  IF mode # "up" \/ fault THEN Ret("False", NoData, store)
  ELSE Ret(IF path \in DOMAIN store THEN "True" ELSE "False", NoData, store)

(* list_files_with_prefix: the names below kind/K/, or []                  *)
list_files_with_prefix(store, mode, path, fault) ==
  IF mode # "up" \/ fault THEN Ret("list", {}, store)
  ELSE Ret("list", {p \in DOMAIN store : p[1] = path[1] /\ p[2] = path[2]},
           store)

(* delete_file: blob.exists() and blob.delete() are not in a try           *)
delete_file(store, mode, path, fault) ==
  IF mode # "up" THEN Ret("False", NoData, store)
  ELSE IF fault THEN Ret("raise", NoData, store)
  ELSE IF path \in DOMAIN store
    THEN Ret("True", NoData, [p \in DOMAIN store \ {path} |-> store[p]])
    ELSE Ret("False", NoData, store)

StorePaths == {<<kind, ReadKey, 1>> : kind \in {"images", "text", "audio"}}

NoCall == [op |-> "none", path |-> NoData, fault |-> FALSE]

(* One call of an operation by client r: its return value is the client's  *)
(* last event.                                                             *)
Call(r, op, path, fault, out) ==
  /\ rq' = [rq EXCEPT ![r] = [op |-> op, path |-> path, fault |-> fault]]
  /\ events' = [events EXCEPT ![r] = <<[kind |-> out.kind, val |-> out.val]>>]
  /\ bucket' = out.store
  /\ UNCHANGED <<clock, gcs, pdfs, user_pdfs, bucketDb, tempPdfs, folders,
                 localFiles, pc, faults>>
  /\ UNCHANGED auth

UploadFile(r) ==
  /\ pc[r] = "idle"
  /\ \E path \in StorePaths, fault \in BOOLEAN :
       Call(r, "upload_file", path, fault,
            upload_file(bucket, gcs, path, <<"uploaded", path>>, fault))

UploadFromFile(r) ==
  /\ pc[r] = "idle"
  /\ \E path \in StorePaths, fault \in BOOLEAN :
       Call(r, "upload_from_file", path, fault,
            upload_file(bucket, gcs, path, <<"uploaded", path>>, fault))

UploadFromFilename(r) ==
  /\ pc[r] = "idle"
  /\ \E path \in StorePaths, fault \in BOOLEAN :
       Call(r, "upload_from_filename", path, fault,
            upload_file(bucket, gcs, path, <<"uploaded", path>>, fault))

GenerateSignedUrl(r) ==
  /\ pc[r] = "idle"
  /\ \E path \in StorePaths, fault \in BOOLEAN :
       Call(r, "generate_signed_url", path, fault,
            generate_signed_url(bucket, gcs, path, fault))

DownloadFile(r) ==
  /\ pc[r] = "idle"
  /\ \E path \in StorePaths, fault \in BOOLEAN :
       Call(r, "download_file", path, fault,
            download_file(bucket, gcs, path, fault))

DownloadAsString(r) ==
  /\ pc[r] = "idle"
  /\ \E path \in StorePaths, fault \in BOOLEAN :
       Call(r, "download_as_string", path, fault,
            download_as_string(bucket, gcs, path, fault))

CheckIfFileExists(r) ==
  /\ pc[r] = "idle"
  /\ \E path \in StorePaths, fault \in BOOLEAN :
       Call(r, "check_if_file_exists", path, fault,
            check_if_file_exists(bucket, gcs, path, fault))

ListFilesWithPrefix(r) ==
  /\ pc[r] = "idle"
  /\ \E path \in StorePaths, fault \in BOOLEAN :
       Call(r, "list_files_with_prefix", path, fault,
            list_files_with_prefix(bucket, gcs, path, fault))

DeleteFile(r) ==
  /\ pc[r] = "idle"
  /\ \E path \in StorePaths, fault \in BOOLEAN :
       Call(r, "delete_file", path, fault,
            delete_file(bucket, gcs, path, fault))

(* A bucket that holds any of the artifacts of one page, with or without   *)
(* credentials for it.                                                     *)
InitStore ==
  \E g \in {"none", "up"}, stored \in SUBSET StorePaths :
    /\ clock = 0
    /\ gcs = g
    /\ pdfs = <<>>
    /\ user_pdfs = <<>>
    /\ bucket = [o \in stored |-> bytes_of(o[1], o[2], o[3])]
    /\ bucketDb = <<>>
    /\ tempPdfs = {}
    /\ folders = {}
    /\ localFiles = {}
    /\ pc = [r \in Reqs |-> "idle"]
    /\ rq = [r \in Reqs |-> NoCall]
    /\ events = [r \in Reqs |-> <<>>]
    /\ faults = 0
    /\ sessions = <<>>
    /\ issued = 0
    /\ tz = 0

NextStore ==
  \/ UploadFile(1)
  \/ UploadFromFile(1)
  \/ UploadFromFilename(1)
  \/ GenerateSignedUrl(1)
  \/ DownloadFile(1)
  \/ DownloadAsString(1)
  \/ CheckIfFileExists(1)
  \/ ListFilesWithPrefix(1)
  \/ DeleteFile(1)

SpecStore == InitStore /\ [][NextStore]_vars

(* ------------------------------ the hash ------------------------------- *)

(* The files of at most MaxBytes bytes over two byte values                *)
ByteSeqs == UNION {[1..n -> {0, 1}] : n \in 0..MaxBytes}

NoUpload == [user |-> 0, filename |-> "", difficulty |-> "", bytes |-> <<>>,
             hash |-> NoData, order |-> 0]

(* process_pdf from file.save to calculate_file_hash: the upload of client *)
(* r is saved to its scratch file and hashed.  order is history: how many  *)
(* uploads had been hashed when this one was.                              *)
HashUpload(r) ==
  /\ pc[r] = "idle"
  /\ pc' = [pc EXCEPT ![r] = "hashed"]
  /\ tempPdfs' = tempPdfs \cup {r}
  /\ rq' = [rq EXCEPT ![r].hash = calculate_file_hash(rq[r].bytes),
                      ![r].order = Cardinality(tempPdfs) + 1]
  /\ UNCHANGED <<clock, gcs, pdfs, user_pdfs, bucket, bucketDb, folders,
                 localFiles, events, faults>>
  /\ UNCHANGED auth

(* Two uploads: one of user 1 named notes.pdf at the default level, one of *)
(* either user under either name at either level, each with any bytes.     *)
InitHash ==
  \E b1 \in ByteSeqs, b2 \in ByteSeqs, u \in Users,
     f \in {"notes.pdf", "Notes.pdf"}, d \in Levels :
    /\ clock = 0
    /\ gcs = "up"
    /\ pdfs = <<>>
    /\ user_pdfs = <<>>
    /\ bucket = <<>>
    /\ bucketDb = <<>>
    /\ tempPdfs = {}
    /\ folders = {}
    /\ localFiles = {}
    /\ pc = [r \in Reqs |-> "idle"]
    /\ rq = [r \in Reqs |->
              IF r = 1
                THEN [NoUpload EXCEPT !.user = 1, !.filename = "notes.pdf",
                                      !.difficulty = "detailed", !.bytes = b1]
                ELSE [NoUpload EXCEPT !.user = u, !.filename = f,
                                      !.difficulty = d, !.bytes = b2]]
    /\ events = [r \in Reqs |-> <<>>]
    /\ faults = 0
    /\ sessions = <<>>
    /\ issued = 0
    /\ tz = 0

NextHash == \E r \in Reqs : HashUpload(r)

SpecHash == InitHash /\ [][NextHash]_vars

(* ------------------- an ingestion and a quiz client -------------------- *)

(* An empty store; client 1 will upload, client 2 will ask for quizzes.    *)
InitCalls ==
  /\ clock = 0
  /\ gcs \in {"none", "up"}
  /\ pdfs = <<>>
  /\ user_pdfs = <<>>
  /\ bucket = <<>>
  /\ bucketDb = <<>>
  /\ tempPdfs = {}
  /\ folders = {}
  /\ localFiles = {}
  /\ pc = [r \in Reqs |-> "idle"]
  /\ rq = [r \in Reqs |-> IF r = 1 THEN NoRq ELSE NoQuiz]
  /\ events = [r \in Reqs |-> <<>>]
  /\ faults = 0
  /\ sessions = <<>>
  /\ issued = 0
  /\ tz = 0

(* One ingestion, and quiz requests for the key notes_0 while it runs and  *)
(* after it.                                                               *)
NextCalls ==
  \/ Submit(1)
  \/ Rasterize(1)
  \/ AddPdfInsert(1)
  \/ AssocSelect(1)
  \/ AssocInsert(1)
  \/ Page(1)
  \/ Cleanup(1)
  \/ QuizStart(2, ReadKey)
  \/ QuizFinish(2, QuizTexts \cup {Raises})

SpecCalls == InitCalls /\ [][NextCalls]_vars

(* ------------------------------ properties ----------------------------- *)

Terminal == {"existing", "complete", "error"}

Last(seq) == seq[Len(seq)]

Finished(r) == pc[r] = "done"

(* C1: a submission that comes in when a record with its hash is already   *)
(* in the Catalog is answered by exactly one 'existing' event that names   *)
(* that record's storage key, its user is then linked to that record, and  *)
(* there is still one record with the hash.                                *)
C1_Idempotent ==
  \A r \in Reqs :
    rq[r].prior =>
      /\ Cardinality(HashRows(pdfs, rq[r].hash)) = 1
      /\ events[r] \in {<<>>, <<[type |-> "existing",
             pdf_name |-> pdfs[Lowest(HashRows(pdfs, rq[r].hash))].file_path]>>}
      /\ Finished(r) =>
           /\ events[r] # <<>>
           /\ LinkRows(user_pdfs, rq[r].user,
                       Lowest(HashRows(pdfs, rq[r].hash))) # {}

(* A second user submits bytes that a finished ingestion of another user   *)
(* stored under a key of an earlier second.                                *)
C1_Witness ==
  \E r \in Reqs, q \in Reqs :
    /\ Finished(r) /\ rq[r].prior
    /\ Finished(q) /\ rq[q].path = "new" /\ rq[q].hash = rq[r].hash
    /\ Last(events[q]).type = "complete"
    /\ rq[q].user # rq[r].user
    /\ rq[q].key # storage_key(rq[r].filename, clock)

(* C2: the Catalog never holds two PdfRecords with the same content hash.  *)
C2_HashUnique ==
  \A j \in DOMAIN pdfs, k \in DOMAIN pdfs :
    pdfs[j].pdf_hash = pdfs[k].pdf_hash => j = k

(* Two ingestions of the same new bytes both passed the lookup of          *)
(* process_pdf and the SELECT of add_pdf, and both reached the INSERT.     *)
C2_Witness ==
  \E r \in Reqs, q \in Reqs :
    /\ r # q /\ rq[r].hash = rq[q].hash
    /\ rq[r].path = "new" /\ rq[q].path = "new"
    /\ rq[r].fail = "IntegrityError"
    /\ rq[q].dbid # 0 /\ pdfs[rq[q].dbid].file_path = rq[q].key

(* C3: no ingestion ends with an 'error' event that the uniqueness         *)
(* violation in add_pdf caused.                                            *)
C3_NoUniquenessError ==
  \A r \in Reqs :
    \A k \in DOMAIN events[r] :
      events[r][k].type = "error" => events[r][k].error # "IntegrityError"

(* C4: at most one UserPdfLink per (user_id, pdf_id).                      *)
C4_OneLinkPerPair ==
  \A j \in DOMAIN user_pdfs, k \in DOMAIN user_pdfs :
    (user_pdfs[j].user_id = user_pdfs[k].user_id
       /\ user_pdfs[j].pdf_id = user_pdfs[k].pdf_id) => j = k

(* The stream of an ingestion, position by position: 'info', then for each *)
(* page its 'progress' and its 'page', then 'complete'.                    *)
InOrder(ev, n) ==
  /\ Len(ev) <= 2 * n + 2
  /\ \A k \in DOMAIN ev :
       IF k = 1 THEN ev[k].type = "info" /\ ev[k].total_pages = n
       ELSE IF k = 2 * n + 2 THEN ev[k].type = "complete"
       ELSE IF k % 2 = 0
         THEN ev[k].type = "progress" /\ ev[k].page = k \div 2
         ELSE ev[k].type = "page" /\ ev[k].page_number = (k - 1) \div 2

(* C5: an ingestion of a new N-page PDF in which nothing but explanation   *)
(* and narration calls failed streams 'info' with total_pages = N, then    *)
(* 'progress' i and 'page' i for i = 1..N in this order, then 'complete'.  *)
C5_PageOrder ==
  \A r \in Reqs :
    (rq[r].path = "new" /\ rq[r].fail = "none") =>
      /\ InOrder(events[r], rq[r].n)
      /\ events[r] # <<>> => rq[r].n = page_count_of(rq[r].bytes)
      /\ Finished(r) => Len(events[r]) = 2 * rq[r].n + 2

C5_Witness ==
  \E r \in Reqs :
    /\ Finished(r) /\ rq[r].path = "new" /\ rq[r].fail = "none"
    /\ rq[r].n = MaxPages /\ Len(events[r]) = 2 * MaxPages + 2
    /\ rq[r].efail \cup rq[r].nfail # {}

(* C6: a terminal event is the last event of its response, an 'existing'   *)
(* response holds nothing else, and 'complete' comes after the 'page'      *)
(* events of all pages.                                                    *)
C6_Terminal ==
  \A r \in Reqs :
    LET ev == events[r]
    IN /\ \A k \in DOMAIN ev : ev[k].type \in Terminal => k = Len(ev)
       /\ (\E k \in DOMAIN ev : ev[k].type = "existing") => Len(ev) = 1
       /\ \A k \in DOMAIN ev :
            ev[k].type = "complete" =>
              \A i \in 1..page_count_of(rq[r].bytes) :
                \E j \in 1..(k - 1) :
                  ev[j].type = "page" /\ ev[j].page_number = i

C6_Witness ==
  \E r \in Reqs, q \in Reqs :
    /\ Finished(r) /\ Last(events[r]).type = "complete" /\ rq[r].n = MaxPages
    /\ Finished(q) /\ Last(events[q]).type = "existing"

(* C7: a failed explanation or narration call on page i leaves a 'page'    *)
(* event for page i with the error text or with empty audio, and the       *)
(* ingestion goes on to the pages after i and to 'complete'.               *)
C7_FailureDegrades ==
  \A r \in Reqs :
    LET ev == events[r]
    IN /\ \A i \in rq[r].efail \cup rq[r].nfail :
            \E k \in DOMAIN ev :
              /\ ev[k].type = "page" /\ ev[k].page_number = i
              /\ i \in rq[r].efail =>
                   ev[k].explanation = "Failed to generate explanation"
              /\ i \in rq[r].nfail => ev[k].audio = ""
       /\ (Finished(r) /\ rq[r].path = "new" /\ rq[r].fail = "none") =>
            /\ Last(ev).type = "complete"
            /\ \A i \in 1..rq[r].n :
                 \E k \in DOMAIN ev :
                   ev[k].type = "page" /\ ev[k].page_number = i

C7_Witness ==
  \E r \in Reqs :
    /\ Finished(r) /\ Last(events[r]).type = "complete"
    /\ \E i \in rq[r].efail : i < rq[r].n

(* C8: the 'progress' event of page i of N reports 30 + floor((i-1)*65/N): *)
(* 30 for the first page, never less than for an earlier page, below 95,   *)
(* and 30, 51, 73 for N = 3.                                               *)
C8_Progress ==
  \A r \in Reqs :
    \A k \in DOMAIN events[r] :
      events[r][k].type = "progress" =>
        LET p == events[r][k].progress
            i == events[r][k].page
            N == events[r][k].total_pages
        IN /\ N >= 1 /\ 1 <= i /\ i <= N
           /\ (p - 30) * N <= (i - 1) * 65
           /\ (i - 1) * 65 < (p - 30 + 1) * N
           /\ i = 1 => p = 30
           /\ 30 <= p /\ p < 95
           /\ \A j \in 1..k :
                events[r][j].type = "progress" => events[r][j].progress <= p
           /\ N = 3 => p = (CASE i = 1 -> 30 [] i = 2 -> 51 [] OTHER -> 73)

C8_Witness ==
  \E r \in Reqs :
    /\ Finished(r) /\ rq[r].n = 3
    /\ Cardinality({k \in DOMAIN events[r] :
                      events[r][k].type = "progress"}) = 3

(* The request that takes the step                                         *)
Actor(r) == pc'[r] # pc[r] \/ rq'[r] # rq[r] \/ events'[r] # events[r]

C9_State ==
  \A r \in Reqs :
    rq[r].path = "new" =>
      /\ (events[r] # <<>> /\ events[r][1].type = "info") =>
           /\ rq[r].dbid \in DOMAIN pdfs
           /\ pdfs[rq[r].dbid].pdf_hash = rq[r].hash
           /\ link_exists(user_pdfs, rq[r].user, rq[r].dbid)
      /\ (Finished(r) /\ ~convert_from_path_ok(rq[r].bytes)) =>
           events[r] = <<[type |-> "error", error |-> "rasterize"]>>

C9_Step ==
  \A r \in Reqs :
    (Actor(r) /\ rq'[r].path = "new"
       /\ (pdfs' # pdfs \/ user_pdfs' # user_pdfs)) =>
      /\ convert_from_path_ok(rq[r].bytes)
      /\ rq[r].n = page_count_of(rq[r].bytes)
      /\ events[r] = <<>>

(* C9: an ingestion of a new hash writes to the Catalog only after its     *)
(* rasterization has returned pages and before it yields 'info', at which  *)
(* point its record and its user's link exist; one whose rasterization     *)
(* fails answers with a single 'error' event and writes nothing.           *)
C9_CatalogAfterRaster == []C9_State /\ [][C9_Step]_vars

C9_Witness ==
  \E r \in Reqs, q \in Reqs :
    /\ Finished(r) /\ rq[r].fail = "rasterize"
    /\ events[q] # <<>> /\ events[q][1].type = "info"
    /\ pdfs[rq[q].dbid].file_path = rq[q].key

(* C10 as claimed: a duplicate submission changes nothing but the user's   *)
(* link and its scratch upload.                                            *)
C10_DuplicateFrame ==
  [][\A r \in Reqs :
       (Actor(r) /\ rq'[r].path = "dup") =>
         UNCHANGED <<pdfs, bucket, bucketDb, folders, localFiles, faults>>]_vars

(* C10 amended: a duplicate submission rasterizes nothing, calls neither   *)
(* the explanation nor the narration capability, writes no artifact and    *)
(* inserts no PdfRecord; it changes the user's link (at most one new row,  *)
(* for its user and the existing record), its scratch upload, and, when it *)
(* inserted a link and the bucket is available, the copy of the Catalog    *)
(* file in the bucket.                                                     *)
C10_DuplicateFrameAmended ==
  [][\A r \in Reqs :
       (Actor(r) /\ rq'[r].path = "dup") =>
         /\ UNCHANGED <<pdfs, bucket, folders, localFiles, faults>>
         /\ \/ UNCHANGED <<user_pdfs, bucketDb>>
            \/ /\ user_pdfs' = Append(user_pdfs,
                    [user_id |-> rq[r].user, pdf_id |-> rq[r].dbid])
               /\ pdfs[rq[r].dbid].pdf_hash = rq[r].hash
               /\ \/ UNCHANGED bucketDb
                  \/ gcs = "up" /\ bucketDb' = <<pdfs', user_pdfs'>>
         /\ tempPdfs' \in {tempPdfs \cup {r}, tempPdfs \ {r}}]_vars

(* A duplicate submission of a second user has finished and its new link   *)
(* is in the bucket's copy of the Catalog.                                 *)
C10_Witness ==
  \E r \in Reqs :
    /\ Finished(r) /\ rq[r].path = "dup" /\ gcs = "up"
    /\ r \notin tempPdfs
    /\ bucketDb # <<>>
    /\ \E k \in DOMAIN bucketDb[2] :
         /\ bucketDb[2][k] = [user_id |-> rq[r].user, pdf_id |-> rq[r].dbid]
         /\ \A j \in 1..(k - 1) : bucketDb[2][j].user_id # rq[r].user

(* ------------------- properties of the read routes --------------------- *)

InLocal(files, paths, K, n) == first_existing(files, paths, K, n) # 0
InRemote(bkt, kind, K, n) == <<kind, K, n>> \in DOMAIN bkt
HadText(q) ==
  \/ <<TextPath, q.key, q.page>> \in q.before.files
  \/ InRemote(q.before.bucket, "text", q.key, q.page)

(* C11: a get-audio request for a page whose audio is in neither tier and  *)
(* whose explanation text is in at least one tier, with a narration (and   *)
(* an upload) that succeeds, leaves the audio in the local tier and, when  *)
(* the bucket is available, in the bucket.                                 *)
C11_SelfHealing ==
  \A r \in Reqs :
    LET q == rq[r]
    IN (/\ q.op = "audio" /\ q.tts_ok /\ q.up_ok
        /\ ~InLocal(q.before.files, AudioPaths, q.key, q.page)
        /\ ~InRemote(q.before.bucket, "audio", q.key, q.page)
        /\ HadText(q))
       => /\ InLocal(localFiles, AudioPaths, q.key, q.page)
          /\ gcs # "none" => InRemote(bucket, "audio", q.key, q.page)

(* C12: the get-audio request that regenerated and saved the audio answers *)
(* with the audio (the file or a redirect to it), not with 404.            *)
C12_ServesRegenerated ==
  \A r \in Reqs :
    (rq[r].op = "audio" /\ rq[r].regenerated) =>
      events[r][1].status \in {200, 302}

(* C13: a read of an image, of a non-empty audio or (through use-existing) *)
(* of a text that is in the local tier only, with the bucket available and *)
(* accepting the upload, leaves the artifact in the bucket.                *)
C13_TierPromotion ==
  \A r \in Reqs :
    LET q == rq[r]
        was == q.before
    IN /\ (/\ q.op = "audio" /\ gcs # "none" /\ q.up_ok
           /\ InLocal(was.files, AudioPaths, q.key, q.page)
           /\ ~InRemote(was.bucket, "audio", q.key, q.page))
          => /\ InRemote(bucket, "audio", q.key, q.page)
             /\ bucket[<<"audio", q.key, q.page>>]
                  = bytes_of("audio", q.key, q.page)
       /\ (/\ q.op = "image" /\ gcs # "none" /\ q.up_ok
           /\ InLocal(was.files, ImagePaths, q.key, q.page)
           /\ ~InRemote(was.bucket, "images", q.key, q.page))
          => /\ InRemote(bucket, "images", q.key, q.page)
             /\ bucket[<<"images", q.key, q.page>>]
                  = bytes_of("images", q.key, q.page)
       /\ (/\ q.op = "use" /\ gcs # "none" /\ q.up_ok
           /\ events[r][1].status = 200)
          => \A n \in 1..events[r][1].total_pages :
               (/\ <<TextPath, q.key, n>> \in was.files
                /\ ~InRemote(was.bucket, "text", q.key, n))
               => /\ InRemote(bucket, "text", q.key, n)
                  /\ bucket[<<"text", q.key, n>>] = bytes_of("text", q.key, n)

(* An image under its alternate local name only has been read and is now   *)
(* in the bucket too.                                                      *)
C13_Witness ==
  \E r \in Reqs :
    /\ rq[r].op = "image" /\ gcs = "up" /\ rq[r].up_ok
    /\ <<ImagePaths[2], rq[r].key, rq[r].page>> \in rq[r].before.files
    /\ ~InRemote(rq[r].before.bucket, "images", rq[r].key, rq[r].page)
    /\ InRemote(bucket, "images", rq[r].key, rq[r].page)
    /\ events[r][1].status = 302

C15_BackFill ==
  \A r \in Reqs :
    LET q == rq[r]
        was == q.before
    IN /\ (/\ q.op = "image" /\ gcs # "none" /\ q.sign_ok
           /\ InRemote(was.bucket, "images", q.key, q.page)
           /\ ~InLocal(was.files, ImagePaths, q.key, q.page))
          => InLocal(localFiles, ImagePaths, q.key, q.page)
       /\ (/\ q.op = "use" /\ gcs # "none" /\ q.dl_ok
           /\ events[r][1].status = 200)
          => \A n \in 1..events[r][1].total_pages :
               (/\ InRemote(was.bucket, "text", q.key, n)
                /\ <<TextPath, q.key, n>> \notin was.files)
               => <<TextPath, q.key, n>> \in localFiles

(* C16: with the remote tier unavailable for the whole run, after an       *)
(* ingestion of an N-page PDF has ended with 'complete', get image of a    *)
(* page 1..N answers the image, not 404, and use-existing answers 200 with *)
(* the explanation text of every page 1..N.                                *)
C16_LocalOnlyRetrievable ==
  (/\ gcs = "none"
   /\ pc[1] = "done"
   /\ Last(events[1]).type = "complete"
   /\ events[2] # <<>>)
  => LET resp == events[2][1]
     IN /\ (rq[2].op = "image" /\ rq[2].page <= rq[1].n) => resp.status # 404
        /\ rq[2].op = "use" =>
              /\ resp.status = 200
              /\ resp.total_pages = rq[1].n
              /\ \A i \in 1..rq[1].n :
                    i \notin rq[1].efail => resp.pages[i].explanation # NoData


(* C17: two PDFs of distinct content uploaded under the same display name  *)
(* get distinct storage keys, whatever the clock reads at the two uploads, *)
(* and once both ingestions have completed the base-name lookup returns    *)
(* both keys.                                                              *)
C17_DistinctKeys ==
  \A r1 \in Reqs, r2 \in Reqs :
    (/\ r1 # r2
     /\ rq[r1].path = "new" /\ rq[r2].path = "new"
     /\ rq[r1].filename = rq[r2].filename
     /\ rq[r1].hash # rq[r2].hash)
    => /\ rq[r1].key # rq[r2].key
       /\ (/\ Finished(r1) /\ Last(events[r1]).type = "complete"
           /\ Finished(r2) /\ Last(events[r2]).type = "complete")
          => {rq[r1].key, rq[r2].key} \subseteq
               Range(get_pdf_versions_by_name(pdfs,
                 clean_pdf_name(original_pdf_name(rq[r1].filename))))

(* The shape the quiz is specified to have: exactly 5 items, each a        *)
(* mapping with a question, exactly 4 options and a correctAnswer among    *)
(* A, B, C, D.                                                             *)
WellShaped(v) ==
  /\ v.kind = "list"
  /\ Len(v.items) = 5
  /\ \A k \in DOMAIN v.items :
       /\ v.items[k].isdict
       /\ {"question", "options", "correctAnswer"} \subseteq v.items[k].keys
       /\ v.items[k].options = 4
       /\ v.items[k].correctAnswer \in {"A", "B", "C", "D"}

Answered(r) == pc[r] = "idle" /\ rq[r].op = "quiz" /\ events[r] # <<>>

(* C18: a generate_quiz response that carries a freshly generated quiz,    *)
(* from the first attempt or from the retry, carries exactly 5 items, each *)
(* with a question, exactly 4 options and a correctAnswer in {A,B,C,D};    *)
(* no quiz of another shape is returned or stored.                         *)
C18_QuizShape ==
  \A r \in Reqs :
    (Answered(r) /\ rq[r].fresh) =>
      /\ events[r][1].status = 200
      /\ WellShaped(events[r][1].quiz)
      /\ WellShaped(local_quiz(localFiles, rq[r].key))

(* C19: when the first answer of the quiz model parses as JSON but is not  *)
(* a list, or has an element that is not a mapping or lacks a required     *)
(* key, generate_quiz has sent the 3-question prompt, once, by the time it *)
(* answers.                                                                *)
C19_RetryOnInvalidShape ==
  \A r \in Reqs :
    (/\ Answered(r) /\ rq[r].asked
     /\ rq[r].first # Invalid
     /\ ~valid_structure(rq[r].first))
    => rq[r].calls = 2

(* C20: a request that finds a quiz of key K in the bucket, and can read   *)
(* it, or in uploads/K answers with that quiz, sends no prompt to the      *)
(* model and leaves that stored quiz as it was; and a request that comes   *)
(* in after a quiz was generated is answered with that quiz.               *)
C20_Hit ==
  \A r \in Reqs :
    (pc[r] = "idle" /\ rq'[r] # rq[r] /\ rq'[r].op = "quiz") =>
      LET K == rq'[r].key
          readable == /\ gcs # "none" /\ QuizObject(K) \in DOMAIN bucket
                      /\ rq'[r].qdl_ok
          stored == local_quiz(localFiles, K)
      IN /\ readable =>
              /\ events'[r] = <<Quiz(json_loads(bucket[QuizObject(K)]))>>
              /\ pc'[r] = "idle" /\ rq'[r].summaries = 0
              /\ bucket' = bucket
              /\ local_quiz(localFiles', K) = stored
         /\ (~readable /\ stored # Invalid) =>
              /\ events'[r] = <<Quiz(stored)>>
              /\ pc'[r] = "idle" /\ rq'[r].summaries = 0
              /\ local_quiz(localFiles', K) = stored
              /\ \A o \in DOMAIN bucket :
                    o # QuizObject(K) =>
                      o \in DOMAIN bucket' /\ bucket'[o] = bucket[o]
              /\ QuizObject(K) \in DOMAIN bucket' =>
                    json_loads(bucket'[QuizObject(K)]) = stored
                      \/ (/\ QuizObject(K) \in DOMAIN bucket
                          /\ bucket'[QuizObject(K)] = bucket[QuizObject(K)])

C20_Later ==
  \A r \in Reqs :
    Answered(r) => \A g \in rq[r].prior : events[r][1] = Quiz(g)

C20_Memoized == []C20_Later /\ [][C20_Hit]_vars

(* The highest number in a set of page numbers, 0 for none                 *)
Highest(S) == IF S = {} THEN 0 ELSE CHOOSE k \in S : \A j \in S : j <= k

FirstPositive(a, b, c) == IF a > 0 THEN a ELSE IF b > 0 THEN b ELSE c

(* The page count a use-existing request is to find in the state it met:   *)
(* the Catalog's, else the highest image listed in the bucket, else the    *)
(* highest <..>_page_<N>.jpg of uploads/K/image_files.                     *)
ExpectedPages(q) ==
  LET K == q.key
      rows == {k \in 1..Len(pdfs) : pdfs[k].file_path = K}
      db == IF rows = {} THEN 0 ELSE pdfs[Lowest(rows)].page_count
      remote == IF gcs = "none" THEN 0
                ELSE Highest({n \in 1..MaxListed :
                                <<"images", K, n>> \in DOMAIN q.before.bucket})
      local == Highest({n \in 1..MaxListed :
                          <<ImagePaths[1], K, n>> \in q.before.files})
  IN FirstPositive(db, remote, local)

(* C21: use-existing takes the page count of the Catalog when positive,    *)
(* else the highest page image listed in the bucket, else the highest one  *)
(* listed locally, and answers 404 exactly when all three are zero.        *)
C21_PageCount ==
  \A r \in Reqs :
    (rq[r].op = "use" /\ events[r] # <<>>) =>
      LET resp == events[r][1]
          n == ExpectedPages(rq[r])
      IN /\ resp.status = 404 <=> n = 0
         /\ n > 0 => resp.status = 200 /\ resp.total_pages = n

C21_Witness ==
  \E r \in Reqs :
    /\ rq[r].op = "use" /\ events[r] # <<>>
    /\ get_pdf_by_path(pdfs, rq[r].key) = 0
    /\ gcs = "up"
    /\ <<"images", rq[r].key, 2>> \in DOMAIN rq[r].before.bucket
    /\ <<"images", rq[r].key, 3>> \notin DOMAIN rq[r].before.bucket
    /\ <<ImagePaths[1], rq[r].key, 3>> \in rq[r].before.files
    /\ events[r][1].status = 200
    /\ events[r][1].total_pages = 2

(* C22: a 200 answer of use-existing lists total_pages entries numbered    *)
(* 1..total_pages in ascending order, each with its image_url and          *)
(* audio_url; every entry after the first has image = "" and audio = "".   *)
C22_ResponseShape ==
  \A r \in Reqs :
    (rq[r].op = "use" /\ events[r] # <<>> /\ events[r][1].status = 200) =>
      LET resp == events[r][1]
      IN /\ Len(resp.pages) = resp.total_pages
         /\ \A i \in DOMAIN resp.pages :
              /\ resp.pages[i].page_number = i
              /\ resp.pages[i].image_url = <<"/pdf", rq[r].key, "image", i>>
              /\ resp.pages[i].audio_url = <<"/pdf", rq[r].key, "audio", i>>
              /\ i > 1 => /\ resp.pages[i].image = NoData
                          /\ resp.pages[i].audio = NoData

C22_Witness ==
  \E r \in Reqs :
    /\ rq[r].op = "use" /\ events[r] # <<>> /\ events[r][1].status = 200
    /\ events[r][1].total_pages = 3
    /\ events[r][1].pages[1].image # NoData
    /\ events[r][1].pages[1].audio # NoData
    /\ <<"images", rq[r].key, 2>> \in DOMAIN rq[r].before.bucket
    /\ <<"audio", rq[r].key, 2>> \in DOMAIN rq[r].before.bucket
    /\ rq[r].dl_ok

(* ------------------- properties of the session model ------------------- *)

(* The step in which the guard of login_required decides on a request of   *)
(* client r.                                                               *)
Validated(r) == rq'[r].nth = rq[r].nth + 1

(* The sessions whose expires_at, a reading of the server's wall clock,    *)
(* is later than the reading of that wall clock at the time now.           *)
Unexpired(tbl, t, now) ==
  {k \in 1..Len(tbl) : tbl[k].token = t /\ tbl[k].expires_at > now + tz}

(* C23: the guard admits a request only if its Bearer token is the token   *)
(* of a stored session whose expires_at is later than the time of the      *)
(* validation, and the user attached to the request is that session's      *)
(* user; every request it does not admit is answered with 401.             *)
C23_Admission ==
  [][\A r \in Reqs : Validated(r) =>
       IF pc'[r] = "admitted"
         THEN /\ rq'[r].scheme = "Bearer"
              /\ \E k \in Unexpired(sessions, rq'[r].token, clock') :
                   rq'[r].user = sessions[k].user_id
         ELSE events'[r] = <<Unauthorized>>]_vars

(* C23, with the time of the validation read in UTC as SQLite reads it and *)
(* expires_at as stored: what the guard does in every zone.                *)
C23_AdmissionAsStored ==
  [][\A r \in Reqs : Validated(r) =>
       IF pc'[r] = "admitted"
         THEN /\ rq'[r].scheme = "Bearer"
              /\ \E k \in LiveRows(sessions, rq'[r].token, clock') :
                   rq'[r].user = sessions[k].user_id
         ELSE events'[r] = <<Unauthorized>>]_vars

(* What a request that is turned away must leave alone: the Catalog's      *)
(* records and links, the objects of the bucket, the files and folders     *)
(* below uploads/ and the scratch files.                                   *)
Content == <<pdfs, user_pdfs, bucket, localFiles, folders, tempPdfs>>

(* C24: a process-pdf or existing-pdfs request that the guard answers with *)
(* 401 does not reach the view function, and the step that answers it      *)
(* leaves the records, links, artifacts of both tiers and scratch files as *)
(* they were.                                                              *)
C24_RejectedLeavesNoTrace ==
  [][\A r \in Reqs :
       (Validated(r) /\ events'[r] = <<Unauthorized>>) =>
         /\ pc'[r] = "idle"
         /\ Content' = Content]_vars

(* Both routes have turned a request away: one with the token of a session *)
(* that has expired and is purged by the lookup, one with a token that a   *)
(* logout has deleted or that was never issued.                            *)
C24_Witness ==
  /\ events[1] = <<Unauthorized>> /\ rq[1].route = "process-pdf"
  /\ events[2] = <<Unauthorized>> /\ rq[2].route = "existing-pdfs"
  /\ rq[1].scheme = "Bearer" /\ rq[1].token = 1
  /\ rq[2].scheme = "Bearer" /\ rq[2].token # NoToken
  /\ issued = 1 /\ sessions = <<>>
  /\ pc = [r \in Reqs |-> "idle"]

(* The step in which the view function of process-pdf answers client r or  *)
(* hands over to the stream.                                               *)
Viewed(r) ==
  pc[r] = "admitted" /\ rq[r].route = "process-pdf" /\ pc'[r] # "admitted"

(* The upload has no file part, an empty filename or a filename that does  *)
(* not end in .pdf.                                                        *)
InvalidUpload(f) == f \in {NoFile, "", "notes.txt", "NOTES.PDF"}

(* C25: an admitted process-pdf request with no file part, an empty        *)
(* filename or a filename not ending in .pdf is answered 400 and changes   *)
(* nothing: no record, link, artifact, scratch file, session or replica.   *)
C25_ValidationError ==
  [][\A r \in Reqs :
       (Viewed(r) /\ InvalidUpload(rq'[r].filename)) =>
         /\ events'[r] = <<BadRequest>>
         /\ pc'[r] = "idle"
         /\ Content' = Content
         /\ UNCHANGED <<bucketDb, sessions, issued>>]_vars

(* A request with a live session and a file named notes.txt was answered   *)
(* 400.                                                                    *)
C25_Witness ==
  /\ rq[1].route = "process-pdf" /\ rq[1].user # 0
  /\ rq[1].filename = "notes.txt"
  /\ events[1] = <<BadRequest>>
  /\ pc[1] = "idle"

(* C26: no exception leaves a view function: every answer of a route is a  *)
(* JSON body, never the page the framework renders for an exception.       *)
C26_NoUncaught ==
  \A r \in Reqs : events[r] # <<Unhandled>>

(* ------------------- properties of the ContentStore -------------------- *)

(* C27: no ContentStore operation raises: each returns its value or the    *)
(* failure value of its kind (None, False, []), and a call that returns a  *)
(* failure value leaves the bucket as it was.                              *)
C27_Degrades ==
  /\ [](\A r \in Reqs : events[r] # <<>> => events[r][1].kind # "raise")
  /\ [][\A r \in Reqs :
          (events'[r] # <<>> /\ events'[r][1].kind \in {"None", "False", "raise"})
            => bucket' = bucket]_vars

(* ----------------------- properties of the Catalog --------------------- *)

(* Client r is inside associate_pdf_with_user: its SELECT has found no     *)
(* link, its INSERT and commit are still to come.                          *)
InWrite(r) == pc[r] = "assoc_ins"

(* C28: at no time are two request threads both between the start and the *)
(* commit of a Catalog write.                                              *)
C28_WritesExclusive ==
  Cardinality({r \in Reqs : InWrite(r)}) <= 1

(* C29: a record of table pdfs, once created, stays in the table with the  *)
(* title, hash, key, size and page count it was created with, whatever     *)
(* step is taken.                                                          *)
C29_RecordsImmutable ==
  [][/\ Len(pdfs') >= Len(pdfs)
     /\ \A k \in 1..Len(pdfs) : pdfs'[k] = pdfs[k]]_vars

(* Two uploads of different bytes under one name in one second were both   *)
(* ingested to the end: two records with one key, the first as created.    *)
C29_Witness ==
  /\ Len(pdfs) = 2
  /\ pdfs[1].file_path = pdfs[2].file_path
  /\ pdfs[1].pdf_hash # pdfs[2].pdf_hash
  /\ \A r \in Reqs : pc[r] = "done" /\ rq[r].path = "new"
  /\ Len(user_pdfs) = 2

(* ----------------------- properties of the hash ------------------------ *)

(* hashlib.sha256(data).hexdigest(): the digest of a whole byte sequence   *)
sha256(data) == <<"sha256", data>>

Hashed(r) == pc[r] = "hashed"

(* C30: the hash of an upload is the digest of all its bytes, whatever its *)
(* length, and two uploads with equal bytes have equal hashes whatever     *)
(* their names, users, levels and the order in which they were hashed.     *)
C30_HashOfBytes ==
  /\ \A r \in Reqs : Hashed(r) => rq[r].hash = sha256(rq[r].bytes)
  /\ \A r, q \in Reqs :
       (Hashed(r) /\ Hashed(q) /\ rq[r].bytes = rq[q].bytes)
          => rq[r].hash = rq[q].hash

(* Two uploads of the same bytes, of a length that is a multiple of the    *)
(* chunk size and more than one chunk, by different users under different  *)
(* names at different levels; the second client's was hashed first.        *)
C30_Witness ==
  /\ Hashed(1) /\ Hashed(2)
  /\ rq[1].bytes = rq[2].bytes
  /\ Len(rq[1].bytes) = 2 * ChunkSize
  /\ rq[1].user # rq[2].user
  /\ rq[1].filename # rq[2].filename
  /\ rq[1].difficulty # rq[2].difficulty
  /\ rq[2].order = 1 /\ rq[1].order = 2
  /\ rq[1].hash = rq[2].hash

(* ------------------ properties of the calls of the models -------------- *)

Count(seq, x) == Cardinality({k \in DOMAIN seq : seq[k] = x})

(* The pages whose 'page' event client r has been sent                     *)
PagesSent(r) ==
  {events[r][k].page_number :
     k \in {j \in DOMAIN events[r] : events[r][j].type = "page"}}

TextsRetrievable(r) ==
  /\ rq[r].op = "quiz"
  /\ rq[r].collected
  /\ <<"pdfs", rq[r].key, "original.pdf">> \in DOMAIN rq[r].before.bucket
  /\ QuizObject(rq[r].key) \notin DOMAIN rq[r].before.bucket
  /\ local_quiz(rq[r].before.files, rq[r].key) = Invalid

(* C32: with no stored quiz of K and an explanation of K retrievable from  *)
(* the bucket, generate-quiz gets to the quiz prompt, with or without a    *)
(* folder uploads/K: it is waiting for the model or has asked it.          *)
C32_ReachesModel ==
  \A r \in Reqs : TextsRetrievable(r) => (pc[r] = "quiz" \/ rq[r].asked)

(* The 'complete' events of request r                                      *)
Completed(r) ==
  {k \in DOMAIN events[r] : events[r][k].type = "complete"}

(* C33: an ingestion that ends with 'complete' naming pdf_name K has left  *)
(* a record in pdfs with file_path K and the hash of the submitted file,   *)
(* and a row of user_pdfs that links the submitting user to it; also when  *)
(* another ingestion of the same bytes ran at the same time.               *)
C33_CompleteIsRecorded ==
  \A r \in Reqs : \A k \in Completed(r) :
    \E p \in 1..Len(pdfs) :
      /\ pdfs[p].file_path = events[r][k].pdf_name
      /\ pdfs[p].pdf_hash = rq[r].hash
      /\ link_exists(user_pdfs, rq[r].user, pdfs[p].pdf_id)

(* The 'existing' answers of request r                                     *)
Existing(r) ==
  {k \in DOMAIN events[r] : events[r][k].type = "existing"}

(* C34: when a submission is answered 'existing' for K, the ingestion that *)
(* inserted the record of K has reached 'complete'; a submission that      *)
(* comes in while that ingestion is in its page loop, or after it failed,  *)
(* is not answered 'existing'.                                             *)
C34_ExistingIsComplete ==
  \A r \in Reqs : \A k \in Existing(r) :
    \E q \in Reqs \ {r} :
      /\ rq[q].path = "new"
      /\ rq[q].key = events[r][k].pdf_name
      /\ Completed(q) # {}

(* A step in which request slot r takes in a process-pdf submission        *)
Submits(r) ==
  /\ pc[r] \in {"idle", "done"}
  /\ pc'[r] \in {"raster", "assoc"}

(* Before the step, an ingestion of the bytes h had ended in 'error'       *)
(* during rasterization or in a page, and none had ended in 'complete'.    *)
FailedOnly(h) ==
  /\ \E q \in Reqs : /\ pc[q] = "done"
                      /\ rq[q].hash = h
                      /\ rq[q].fail \in {"rasterize", "page"}
  /\ \A p \in Reqs : rq[p].hash = h => Completed(p) = {}

(* C35: after an ingestion has failed, in convert_from_path or in a page,  *)
(* a submission of the same bytes is processed again: it is not taken for  *)
(* a duplicate.                                                            *)
C35_FailedRunsAgain ==
  [][\A r \in Reqs :
       (Submits(r) /\ FailedOnly(rq'[r].hash)) => rq'[r].path = "new"]_vars

(* C36: once a process-pdf request has ended, with 'existing', 'complete'  *)
(* or 'error', its saved upload and its folder uploads/K are gone.         *)
C36_NothingLeftBehind ==
  \A r \in Reqs :
    pc[r] = "done" =>
      /\ r \notin tempPdfs
      /\ rq[r].path = "new" => rq[r].key \notin folders

(* The 'page' events of request r                                          *)
PageEvents(r) ==
  {k \in DOMAIN events[r] : events[r][k].type = "page"}

(* C37: with a bucket that takes every upload, for each page whose 'page'  *)
(* event an ingestion (alone on its key) has sent, the bucket holds the    *)
(* page's image and the explanation the event carried, the placeholder of  *)
(* a failed explanation call included, and holds the page's audio exactly  *)
(* when the narration succeeded.                                           *)
C37_PagesAreStored ==
  \A r \in Reqs :
    (gcs = "up" /\ \A q \in Reqs \ {r} : rq[q].key # rq[r].key) =>
      \A k \in PageEvents(r) :
        LET K == rq[r].key
            i == events[r][k].page_number
        IN /\ <<"images", K, i>> \in DOMAIN bucket
           /\ <<"text", K, i>> \in DOMAIN bucket
           /\ <<"audio", K, i>> \in DOMAIN bucket <=> events[r][k].audio # ""

(* The step in which client r calls the function fn of auth.py             *)
Calls(r, fn) == rq'[r].nth = rq[r].nth + 1 /\ rq'[r].route = fn

(* The rows of tbl with token t, and the rows with another token           *)
WithToken(tbl, t) == {k \in 1..Len(tbl) : tbl[k].token = t}
Others(tbl, t) == {tbl[k] : k \in (1..Len(tbl)) \ WithToken(tbl, t)}

(* What a validation of token t at time now gives on table tbl             *)
Valid(tbl, t, now) == get_current_user(tbl, t, now, "ok").user

(* C38: a logout_user(token) whose DELETE does not raise removes exactly   *)
(* the sessions with that token.  It reports success iff there was one;    *)
(* afterwards a validation of the token fails at any time, and every other *)
(* session, those of the same user included, is validated as before; for   *)
(* an unknown token it reports 'Invalid session token' and leaves the      *)
(* table as it was.                                                        *)
C38_LogoutDeletesItsSession ==
  [][\A r \in Reqs :
       (Calls(r, "logout") /\ rq'[r].fail = "none") =>
         LET t == rq'[r].token
             had == WithToken(sessions, t) # {}
         IN /\ events'[r][1].success <=> had
            /\ WithToken(sessions', t) = {}
            /\ Others(sessions', t) = Others(sessions, t)
            /\ Len(sessions') = Len(sessions) - Cardinality(WithToken(sessions, t))
            /\ \A now \in 0..MaxAuthClock :
                 /\ Valid(sessions', t, now) = 0
                 /\ \A t2 \in SessionTokens \ {t} :
                      Valid(sessions', t2, now) = Valid(sessions, t2, now)
            /\ ~had => /\ events'[r][1].error = "Invalid session token"
                       /\ sessions' = sessions]_vars

(* A user with two sessions has logged out of the first: the call reported *)
(* success, the second session is still stored and still validates.        *)
C38_Witness ==
  /\ rq[1].route = "logout" /\ rq[1].fail = "none"
  /\ rq[1].token = 1 /\ rq[1].user # 0
  /\ events[1] = <<[success |-> TRUE, error |-> ""]>>
  /\ Len(sessions) = 1
  /\ sessions[1].token = 2 /\ sessions[1].user_id = rq[1].user
  /\ Valid(sessions, 2, clock) = rq[1].user
  /\ Valid(sessions, 1, clock) = 0

(* The rows whose expires_at, a reading of the server's wall clock, is     *)
(* later than the reading of that wall clock at the time now.              *)
StillValid(tbl, now) ==
  LET Keep(s) == s.expires_at > now + tz IN SelectSeq(tbl, Keep)

(* C39: a validation of a non-empty token that finds no unexpired session  *)
(* with it deletes every session whose expires_at is not later than the    *)
(* time of the validation and no other, so that no expired session is left *)
(* after it; a validation that succeeds deletes nothing.                   *)
C39_PurgeOnFailure ==
  [][\A r \in Reqs :
       (/\ Calls(r, "validate")
        /\ rq'[r].fail = "none"
        /\ rq'[r].token # NoToken) =>
         IF events'[r][1].user = 0
           THEN sessions' = StillValid(sessions, clock')
           ELSE sessions' = sessions]_vars

(* C39 with the time of the validation read in UTC, as SQLite reads it,    *)
(* and expires_at as stored: what get_current_user does in every zone.     *)
C39_PurgeAsStored ==
  [][\A r \in Reqs :
       (/\ Calls(r, "validate")
        /\ rq'[r].fail = "none"
        /\ rq'[r].token # NoToken) =>
         IF events'[r][1].user = 0
           THEN /\ sessions' = purge_expired(sessions, clock')
                /\ \A k \in 1..Len(sessions') :
                     sessions'[k].expires_at > sqlite_now(clock')
           ELSE sessions' = sessions]_vars

====
